---- MODULE Spec2Model ----
(***************************************************************************)
(* A model of the compiler / interpreter pipeline of the Formula add-on:   *)
(* the compiler (src/compiler.py) lowers a typed program to a sequence of  *)
(* Operations, the interpreter (src/interpreter.py) executes the sequence  *)
(* against the host node tree.  The vec3 field interface comes from        *)
(* src/backends/geo_interfaces/GI_vec3.py.                                 *)
(*                                                                         *)
(* Python values are tagged records (field k is the Python type), Python   *)
(* lists are [k |-> "list", items |-> <<...>>].  The interpreter is        *)
(* recursive in the source (a call runs its body through                   *)
(* Interpreter.operation); the model keeps the Python call stack in        *)
(* `frames`, each frame holding the locals of one suspended handler, and   *)
(* has one action per branch of Interpreter.operation plus one per         *)
(* handler tail that runs after a body.                                    *)
(***************************************************************************)
EXTENDS Integers, Sequences, FiniteSets, TLC

VARIABLES
    typed_ast,            \* the typed program handed to Compiler.compile (<<>>: none)
    operations,           \* Compiler.operations / the sequence handed to the interpreter
    phase,                \* "source" | "compiled" | "failed" | "rejected" | "interpreting" | "registry"
    compile_error,        \* exception raised by the compiler ("" if none)
    tree,                 \* Interpreter.tree: 0 = the document's tree, j>0 = bpy.data.node_groups[j]
    stack,                \* Interpreter.stack
    nodes,                \* Interpreter.nodes (ids of the nodes we added)
    node_group_trees,     \* Interpreter.node_group_trees: name -> tree id
    variables,            \* Interpreter.variables: name -> value
    function_outputs,     \* Interpreter.function_outputs
    current_repeat_zone,  \* <<>> when the attribute is absent, else <<zone record>>
    bpy,                  \* the host document: nodes, links, default values, node groups
    frames,               \* Python call stack of suspended handlers iterating a body
    err,                  \* exception that ended the pass ("" while none)
    made,                 \* history: structs built so far, with their logical component order
    types,                \* TypeInterfaceRegistry.types: base type -> definition
    latest,               \* history: the definition most recently registered for each type
    returned              \* the registry's last call and what it returned

vars == <<typed_ast, operations, phase, compile_error, tree, stack, nodes,
          node_group_trees, variables, function_outputs, current_repeat_zone,
          bpy, frames, err, made, types, latest, returned>>

interp == <<tree, stack, nodes, node_group_trees, variables, function_outputs,
            current_repeat_zone, bpy, frames, err, made>>

(***************************************************************************)
(* Bounds of the model.                                                    *)
(***************************************************************************)
MaxOutputs == 3          \* largest number of outputs of a struct-producing call
MaxArgs == 2             \* largest number of declared inputs of a called function
MaxCalls == 3            \* largest number of calls of one named node group

(***************************************************************************)
(* Python values.                                                          *)
(***************************************************************************)
None == [k |-> "NoneType"]
PyInt(v) == [k |-> "int", v |-> v]
PyBool(b) == [k |-> "bool", b |-> b]
PyStr(s) == [k |-> "str", s |-> s]
PyList(items) == [k |-> "list", items |-> items]
PyTuple(items) == [k |-> "tuple", items |-> items]
\* an output socket of a host node: node id and output slot
NodeSocket(node, index) == [k |-> "NodeSocket", node |-> node, index |-> index]

IsInt(v) == v.k \in {"int", "bool"}            \* bool is a subclass of int
IsNodeSocket(v) == v.k = "NodeSocket"
IsList(v) == v.k = "list"
IsStr(v) == v.k = "str"

Reverse(s) == [j \in 1..Len(s) |-> s[Len(s) + 1 - j]]
Range(s) == {s[j] : j \in 1..Len(s)}

\* Python sequence indexing seq[j]: negative j counts from the end
PyIndexOk(len, j) == -len <= j /\ j < len
PyPos(len, j) == IF j >= 0 THEN j + 1 ELSE len + j + 1

(***************************************************************************)
(* Operation IR payloads (backends/type_defs, used by compiler and         *)
(* interpreter).                                                           *)
(***************************************************************************)
OpType == {"PUSH_VALUE", "CREATE_VAR", "BIND_VAR", "DESTROY_VAR", "GET_VAR",
           "GET_OUTPUT", "SET_OUTPUT", "SET_FUNCTION_OUT", "SPLIT_STRUCT",
           "CALL_FUNCTION", "CALL_NODEGROUP", "CALL_BUILTIN", "RENAME_NODE",
           "CREATE_NODE_GROUP", "CREATE_REPEAT_ZONE", "REPEAT_BODY",
           "END_OF_STATEMENT"}

Operation(op_type, data) == [op_type |-> op_type, data |-> data]

NodeInstance(key, inputs, outputs, props) ==
    [k |-> "NodeInstance", key |-> key, inputs |-> inputs, outputs |-> outputs,
     props |-> props]

CompiledFunction(inputs, body, num_outputs) ==
    [k |-> "CompiledFunction", inputs |-> inputs, body |-> body,
     num_outputs |-> num_outputs]

CompiledNodeGroup(name, inputs, outputs, body) ==
    [k |-> "CompiledNodeGroup", name |-> name, inputs |-> inputs,
     outputs |-> outputs, body |-> body]

\* a declared input or output of a function: name, data type, default value
Decl(name, dtype, value) == [name |-> name, dtype |-> dtype, value |-> value]

(***************************************************************************)
(* The host document (bpy): the graph-editing primitives the interpreter   *)
(* calls.  A node is a record; its id is its position in bpy.nodes.  The   *)
(* socket layout of each node type is the host's.                          *)
(***************************************************************************)
NodeTypes == {"ShaderNodeValue", "ShaderNodeSeparateXYZ", "ShaderNodeCombineXYZ",
              "NodeGroupInput", "NodeGroupOutput", "GeometryNodeGroup",
              "ShaderNodeGroup", "GeometryNodeRepeatInput",
              "GeometryNodeRepeatOutput"}

\* number of input sockets of a freshly created node of a type
TypeInputs(type) ==
    CASE type = "ShaderNodeSeparateXYZ" -> 1
      [] type = "ShaderNodeCombineXYZ" -> 3
      [] type = "GeometryNodeRepeatInput" -> 1      \* Iterations
      [] OTHER -> 0

\* bl_idname of each output socket of a freshly created node of a type
TypeOutputs(type) ==
    CASE type = "ShaderNodeValue" -> <<"NodeSocketFloat">>
      [] type = "ShaderNodeSeparateXYZ" ->
             <<"NodeSocketFloat", "NodeSocketFloat", "NodeSocketFloat">>
      [] type = "ShaderNodeCombineXYZ" -> <<"NodeSocketVector">>
      [] type = "GeometryNodeRepeatInput" -> <<"NodeSocketInt">>   \* Iteration
      [] OTHER -> <<>>

EmptyDocument == [nodes |-> <<>>, links |-> {}, default_values |-> {},
                  node_groups |-> <<>>]

\* tree.nodes.new(type): the new node's id is Len(b.nodes) + 1
NodesNew(b, in_tree, type) ==
    [b EXCEPT !.nodes = Append(@, [type |-> type, tree |-> in_tree, label |-> PyStr(""),
                                   props |-> <<>>, nin |-> TypeInputs(type),
                                   outputs |-> TypeOutputs(type),
                                   node_tree |-> 0, paired_output |-> 0])]

\* tree.links.new(socket, node.inputs[input]): an input holds one link
LinksNew(b, socket, node, input) ==
    [b EXCEPT !.links = {l \in @ : ~(l.node = node /\ l.input = input)}
                        \cup {[from |-> socket, node |-> node, input |-> input]}]

\* node.inputs[input].default_value = value  (dir "in")
\* node.outputs[index].default_value = value (dir "out")
SetDefaultValue(b, node, dir, index, value) ==
    [b EXCEPT !.default_values =
        {d \in @ : ~(d.node = node /\ d.dir = dir /\ d.index = index)}
        \cup {[node |-> node, dir |-> dir, index |-> index, value |-> value]}]

\* bl_idname of the document's tree and of every group created from it
TreeType == "GeometryNodeTree"

(***************************************************************************)
(* Interpreter helpers.                                                    *)
(***************************************************************************)
\* the first element taken for the last
Top_First(s) == s[1]
Top(s) == s[Len(s)]
Pop(s) == SubSeq(s, 1, Len(s) - 1)

\* get_args: the values returned
GetArgs(stk, num_args) ==
    IF num_args = 0 THEN <<>>
    ELSE IF num_args >= Len(stk) THEN stk
    ELSE SubSeq(stk, Len(stk) - num_args + 1, Len(stk))

\* get_args without its num_args == 0 case: stack[:-0] is empty
GetArgsRest_NoZeroCase(stk, num_args) ==
    IF num_args >= Len(stk) \/ num_args = 0 THEN <<>>
    ELSE SubSeq(stk, 1, Len(stk) - num_args)

\* get_args: the stack left behind (stack[:] = stack[:-num_args])
GetArgsRest(stk, num_args) ==
    IF num_args = 0 THEN stk
    ELSE IF num_args >= Len(stk) THEN <<>>
    ELSE SubSeq(stk, 1, Len(stk) - num_args)

\* GET_OUTPUT reading the struct in storage order: struct[index]
GetOutputIndex_Forward(index) == index

\* GET_OUTPUT: the component selected, struct[-index - 1]
GetOutputIndex(index) == -index - 1

\* the storage order of a struct built from outputs listed in logical order
StructStorage(logical) == PyList(Reverse(logical))

\* [None for _ in range(n)]
Unset(n) == [j \in 1..n |-> None]

\* add_builtin's loop over node_info.inputs from position i on:
\* the document after wiring, and the exception raised on the way ("" if none)
RECURSIVE WireBuiltin(_, _, _, _, _)
\* add_builtin with `elif arg:` in place of `elif arg is not None:`
WireBuiltin_Truthy(b, node, inputs, args, i) ==
    IF i > Len(inputs) THEN [bpy |-> b, err |-> ""]
    ELSE IF i > Len(args) THEN [bpy |-> b, err |-> "IndexError"]
    ELSE IF ~PyIndexOk(b.nodes[node].nin, inputs[i]) THEN
        IF args[i] # None
        THEN [bpy |-> b, err |-> "IndexError"]
        ELSE WireBuiltin(b, node, inputs, args, i + 1)
    ELSE LET slot == PyPos(b.nodes[node].nin, inputs[i]) - 1
         IN IF IsNodeSocket(args[i])
            THEN WireBuiltin(LinksNew(b, args[i], node, slot), node, inputs, args, i + 1)
            ELSE IF args[i] \notin {None, PyInt(0), PyBool(FALSE)}
            THEN WireBuiltin(SetDefaultValue(b, node, "in", slot, args[i]),
                             node, inputs, args, i + 1)
            ELSE WireBuiltin(b, node, inputs, args, i + 1)

WireBuiltin(b, node, inputs, args, i) ==
    IF i > Len(inputs) THEN [bpy |-> b, err |-> ""]
    ELSE IF i > Len(args) THEN [bpy |-> b, err |-> "IndexError"]
    ELSE IF ~PyIndexOk(b.nodes[node].nin, inputs[i]) THEN
        IF args[i] # None
        THEN [bpy |-> b, err |-> "IndexError"]
        ELSE WireBuiltin(b, node, inputs, args, i + 1)
    ELSE LET slot == PyPos(b.nodes[node].nin, inputs[i]) - 1
         IN IF IsNodeSocket(args[i])
            THEN WireBuiltin(LinksNew(b, args[i], node, slot), node, inputs, args, i + 1)
            ELSE IF args[i] # None
            THEN WireBuiltin(SetDefaultValue(b, node, "in", slot, args[i]),
                             node, inputs, args, i + 1)
            ELSE WireBuiltin(b, node, inputs, args, i + 1)

\* for name, value in node_info.props: setattr(node, name, value)
SetProps(b, node, props) == [b EXCEPT !.nodes[node].props = props]

(***************************************************************************)
(* Control: the handler at the top of the Python call stack.               *)
(***************************************************************************)
Frame == frames[Len(frames)]
Running == /\ phase = "interpreting"
           /\ err = ""
           /\ frames # <<>>
           /\ Frame.i <= Len(Frame.body)
CurOp == Frame.body[Frame.i]
Advance(fr) == [fr EXCEPT ![Len(fr)].i = @ + 1]
\* the operation is done: the enclosing loop moves to the next one
Continue == frames' = Advance(frames) /\ err' = err
\* an exception leaves the pass where it was raised
Raise(e) == frames' = frames /\ err' = e

rvars == <<types, latest, returned>>

cvars == <<typed_ast, operations, phase, compile_error, rvars>>

(***************************************************************************)
(* Interpreter.operation, one action per branch.                           *)
(***************************************************************************)
\* PUSH_VALUE (interpreter.py 36-37)
PushValue ==
    /\ Running /\ CurOp.op_type = "PUSH_VALUE"
    /\ stack' = Append(stack, CurOp.data)
    /\ Continue
    /\ UNCHANGED <<cvars, tree, nodes, node_group_trees, variables,
                   function_outputs, current_repeat_zone, bpy, made>>

\* CREATE_VAR (38-46)
CreateVar ==
    /\ Running /\ CurOp.op_type = "CREATE_VAR"
    /\ IF ~IsStr(CurOp.data) THEN Raise("AssertionError") /\ UNCHANGED <<stack, variables>>
       ELSE IF stack = <<>> THEN Raise("IndexError") /\ UNCHANGED <<stack, variables>>
       ELSE /\ stack' = Pop(stack)
            /\ IF IsNodeSocket(Top(stack)) \/ IsList(Top(stack)) \/ IsInt(Top(stack))
               THEN /\ variables' = (CurOp.data.s :> Top(stack)) @@ variables
                    /\ Continue
               ELSE Raise("AssertionError") /\ UNCHANGED variables
    /\ UNCHANGED <<cvars, tree, nodes, node_group_trees, function_outputs,
                   current_repeat_zone, bpy, made>>

\* GET_VAR (47-49)
GetVar ==
    /\ Running /\ CurOp.op_type = "GET_VAR"
    /\ IF ~IsStr(CurOp.data) THEN Raise("AssertionError") /\ UNCHANGED stack
       ELSE IF CurOp.data.s \notin DOMAIN variables
       THEN Raise("KeyError") /\ UNCHANGED stack
       ELSE stack' = Append(stack, variables[CurOp.data.s]) /\ Continue
    /\ UNCHANGED <<cvars, tree, nodes, node_group_trees, variables,
                   function_outputs, current_repeat_zone, bpy, made>>

\* GET_OUTPUT (50-58)
GetOutput ==
    /\ Running /\ CurOp.op_type = "GET_OUTPUT"
    /\ IF CurOp.data.k # "int" THEN Raise("AssertionError") /\ UNCHANGED stack
       ELSE IF stack = <<>> THEN Raise("IndexError") /\ UNCHANGED stack
       ELSE IF ~IsList(Top(stack)) THEN Raise("AssertionError") /\ stack' = Pop(stack)
       ELSE LET struct == Top(stack).items
                j == GetOutputIndex(CurOp.data.v)
            IN IF PyIndexOk(Len(struct), j)
               THEN /\ stack' = Append(Pop(stack), struct[PyPos(Len(struct), j)])
                    /\ Continue
               ELSE Raise("IndexError") /\ stack' = Pop(stack)
    /\ UNCHANGED <<cvars, tree, nodes, node_group_trees, variables,
                   function_outputs, current_repeat_zone, bpy, made>>

\* SET_OUTPUT (59-62)
SetOutput ==
    /\ Running /\ CurOp.op_type = "SET_OUTPUT"
    /\ IF CurOp.data.k # "tuple" THEN Raise("AssertionError") /\ UNCHANGED bpy
       ELSE IF nodes = <<>> THEN Raise("IndexError") /\ UNCHANGED bpy
       ELSE LET index == CurOp.data.items[1].v
                value == CurOp.data.items[2]
                node == Top(nodes)
                nout == Len(bpy.nodes[node].outputs)
            IN IF PyIndexOk(nout, index)
               THEN /\ bpy' = SetDefaultValue(bpy, node, "out", PyPos(nout, index) - 1, value)
                    /\ Continue
               ELSE Raise("IndexError") /\ UNCHANGED bpy
    /\ UNCHANGED <<cvars, tree, stack, nodes, node_group_trees, variables,
                   function_outputs, current_repeat_zone, made>>

\* SET_FUNCTION_OUT (63-67)
SetFunctionOut ==
    /\ Running /\ CurOp.op_type = "SET_FUNCTION_OUT"
    /\ IF CurOp.data.k # "int"
       THEN Raise("AssertionError") /\ UNCHANGED <<stack, function_outputs>>
       ELSE IF stack = <<>>
       THEN Raise("IndexError") /\ UNCHANGED <<stack, function_outputs>>
       ELSE /\ stack' = Pop(stack)
            /\ IF ~IsNodeSocket(Top(stack))
               THEN Raise("AssertionError") /\ UNCHANGED function_outputs
               ELSE IF ~PyIndexOk(Len(function_outputs), CurOp.data.v)
               THEN Raise("IndexError") /\ UNCHANGED function_outputs
               ELSE /\ function_outputs' =
                          [function_outputs EXCEPT
                              ![PyPos(Len(function_outputs), CurOp.data.v)] = Top(stack)]
                    /\ Continue
    /\ UNCHANGED <<cvars, tree, nodes, node_group_trees, variables,
                   current_repeat_zone, bpy, made>>

\* SPLIT_STRUCT (68-73)
SplitStruct ==
    /\ Running /\ CurOp.op_type = "SPLIT_STRUCT"
    /\ IF stack = <<>> THEN Raise("IndexError") /\ UNCHANGED stack
       ELSE IF ~IsList(Top(stack)) THEN Raise("AssertionError") /\ stack' = Pop(stack)
       ELSE stack' = Pop(stack) \o Top(stack).items /\ Continue
    /\ UNCHANGED <<cvars, tree, nodes, node_group_trees, variables,
                   function_outputs, current_repeat_zone, bpy, made>>

\* RENAME_NODE (118-119)
RenameNode ==
    /\ Running /\ CurOp.op_type = "RENAME_NODE"
    /\ IF nodes = <<>> THEN Raise("IndexError") /\ UNCHANGED bpy
       ELSE /\ bpy' = [bpy EXCEPT !.nodes[Top(nodes)].label = CurOp.data]
            /\ Continue
    /\ UNCHANGED <<cvars, tree, stack, nodes, node_group_trees, variables,
                   function_outputs, current_repeat_zone, made>>

\* END_OF_STATEMENT (137-138)
EndOfStatement ==
    /\ Running /\ CurOp.op_type = "END_OF_STATEMENT"
    /\ stack' = <<>>
    /\ Continue
    /\ UNCHANGED <<cvars, tree, nodes, node_group_trees, variables,
                   function_outputs, current_repeat_zone, bpy, made>>

\* any other tag: print and raise NotImplementedError (139-141)
Implemented == {"PUSH_VALUE", "CREATE_VAR", "GET_VAR", "GET_OUTPUT", "SET_OUTPUT",
                "SET_FUNCTION_OUT", "SPLIT_STRUCT", "CALL_FUNCTION",
                "CALL_NODEGROUP", "CALL_BUILTIN", "RENAME_NODE",
                "CREATE_NODE_GROUP", "CREATE_REPEAT_ZONE", "REPEAT_BODY",
                "END_OF_STATEMENT"}

Unimplemented ==
    /\ Running /\ CurOp.op_type \notin Implemented
    /\ Raise("NotImplementedError")
    /\ UNCHANGED <<cvars, tree, stack, nodes, node_group_trees, variables,
                   function_outputs, current_repeat_zone, bpy, made>>

\* zip(op_data.inputs, args) bound in order: a later duplicate name wins
BindArgs(names, args) ==
    LET n == IF Len(names) < Len(args) THEN Len(names) ELSE Len(args)
        last(name) == CHOOSE j \in 1..n :
                          /\ names[j] = name
                          /\ \A h \in 1..n : names[h] = name => h <= j
    IN [name \in {names[j] : j \in 1..n} |-> args[last(name)]]

\* CALL_FUNCTION up to the start of the body (74-88)
CallFunction ==
    /\ Running /\ CurOp.op_type = "CALL_FUNCTION"
    /\ IF CurOp.data.k # "CompiledFunction"
       THEN /\ Raise("AssertionError")
            /\ UNCHANGED <<stack, variables, function_outputs>>
       ELSE LET op_data == CurOp.data
                args == GetArgs(stack, Len(op_data.inputs))
            IN /\ variables' = BindArgs(op_data.inputs, args)
               /\ function_outputs' = Unset(op_data.num_outputs)
               /\ stack' = <<>>
               /\ frames' = Append(frames,
                      [kind |-> "function", body |-> op_data.body, i |-> 1,
                       op_data |-> op_data,
                       outer_vars |-> variables,
                       outer_function_outputs |-> function_outputs,
                       outer_stack |-> GetArgsRest(stack, Len(op_data.inputs))])
               /\ err' = err
    /\ UNCHANGED <<cvars, tree, nodes, node_group_trees, current_repeat_zone,
                   bpy, made>>

\* CALL_FUNCTION after the body: push the result, restore the caller (89-100)
FunctionReturn ==
    /\ phase = "interpreting" /\ err = "" /\ frames # <<>>
    /\ Frame.kind = "function" /\ Frame.i > Len(Frame.body)
    /\ LET outer_stack == Frame.outer_stack
           restore == /\ function_outputs' = Frame.outer_function_outputs
                      /\ variables' = Frame.outer_vars
                      /\ frames' = Advance(Pop(frames))
                      /\ err' = err
           fail == /\ stack' = outer_stack
                   /\ Raise("AssertionError")
                   /\ UNCHANGED <<function_outputs, variables, made>>
       IN IF Len(function_outputs) = 1
          THEN IF IsNodeSocket(function_outputs[1])
               THEN /\ stack' = Append(outer_stack, function_outputs[1])
                    /\ restore
                    /\ UNCHANGED made
               ELSE fail
          ELSE IF Len(function_outputs) > 1
          THEN IF \A j \in 1..Len(function_outputs) : IsNodeSocket(function_outputs[j])
               THEN /\ stack' = Append(outer_stack, StructStorage(function_outputs))
                    /\ made' = made \cup {[storage |-> StructStorage(function_outputs),
                                           logical |-> function_outputs]}
                    /\ restore
               ELSE fail
          ELSE /\ stack' = outer_stack
               /\ restore
               /\ UNCHANGED made
    /\ UNCHANGED <<cvars, tree, nodes, node_group_trees, current_repeat_zone, bpy>>

\* the sockets node.outputs[o] for the listed slots o, in listed order
OutputSockets(b, node, outputs) ==
    [j \in 1..Len(outputs) |->
        NodeSocket(node, PyPos(Len(b.nodes[node].outputs), outputs[j]) - 1)]

\* CALL_BUILTIN (105-117) with add_builtin (150-163)
CallBuiltin ==
    /\ Running /\ CurOp.op_type = "CALL_BUILTIN"
    /\ IF CurOp.data.k # "NodeInstance"
       THEN Raise("AssertionError") /\ UNCHANGED <<stack, nodes, bpy, made>>
       ELSE LET op_data == CurOp.data
                args == GetArgs(stack, Len(op_data.inputs))
                rest == GetArgsRest(stack, Len(op_data.inputs))
                node == Len(bpy.nodes) + 1
                w == WireBuiltin(SetProps(NodesNew(bpy, tree, op_data.key), node,
                                          op_data.props),
                                 node, op_data.inputs, args, 1)
                outputs == op_data.outputs
                nout == Len(TypeOutputs(op_data.key))
            IN IF op_data.key \notin NodeTypes
               THEN Raise("RuntimeError") /\ stack' = rest /\ UNCHANGED <<nodes, bpy, made>>
               ELSE IF w.err # ""
               THEN Raise(w.err) /\ stack' = rest /\ bpy' = w.bpy /\ UNCHANGED <<nodes, made>>
               ELSE IF \/ Len(outputs) = 1 /\ ~PyIndexOk(nout, outputs[1])
                       \/ Len(outputs) > 1 /\ \E j \in 1..Len(outputs) :
                                                  ~PyIndexOk(nout, outputs[j])
               THEN Raise("IndexError") /\ stack' = rest /\ bpy' = w.bpy
                    /\ UNCHANGED <<nodes, made>>
               ELSE /\ bpy' = w.bpy
                    /\ nodes' = Append(nodes, node)
                    /\ Continue
                    /\ IF Len(outputs) = 1
                       THEN /\ stack' = Append(rest, OutputSockets(w.bpy, node, outputs)[1])
                            /\ UNCHANGED made
                       ELSE IF Len(outputs) > 1
                       THEN LET logical == OutputSockets(w.bpy, node, outputs)
                            IN /\ stack' = Append(rest, StructStorage(logical))
                               /\ made' = made \cup {[storage |-> StructStorage(logical),
                                                      logical |-> logical]}
                       ELSE stack' = rest /\ UNCHANGED made
    /\ UNCHANGED <<cvars, tree, node_group_trees, variables, function_outputs,
                   current_repeat_zone>>

\* data_type_to_socket_type (166-196); "" stands for the failed assertion
DataTypeToSocketType(dtype) ==
    CASE dtype = "BOOL" -> "NodeSocketBool"
      [] dtype = "INT" -> "NodeSocketInt"
      [] dtype = "FLOAT" -> "NodeSocketFloat"
      [] dtype = "RGBA" -> "NodeSocketColor"
      [] dtype = "VEC3" -> "NodeSocketVector"
      [] dtype = "GEOMETRY" -> "NodeSocketGeometry"
      [] dtype = "STRING" -> "NodeSocketString"
      [] dtype = "SHADER" -> "NodeSocketShader"
      [] dtype = "OBJECT" -> "NodeSocketObject"
      [] dtype = "IMAGE" -> "NodeSocketImage"
      [] dtype = "COLLECTION" -> "NodeSocketCollection"
      [] dtype = "TEXTURE" -> "NodeSocketTexture"
      [] dtype = "MATERIAL" -> "NodeSocketMaterial"
      [] dtype = "ROTATION" -> "NodeSocketRotation"
      [] OTHER -> ""

\* socket_bl_idname_to_repeat_type (198-217)
SocketBlIdnameToRepeatType(bl_idname) ==
    CASE bl_idname = "NodeSocketBool" -> "BOOLEAN"
      [] bl_idname = "NodeSocketInt" -> "INT"
      [] bl_idname = "NodeSocketFloat" -> "FLOAT"
      [] bl_idname = "NodeSocketColor" -> "RGBA"
      [] bl_idname = "NodeSocketVector" -> "VECTOR"
      [] bl_idname = "NodeSocketGeometry" -> "GEOMETRY"
      [] bl_idname = "NodeSocketString" -> "STRING"
      [] bl_idname = "NodeSocketShader" -> "SHADER"
      [] bl_idname = "NodeSocketObject" -> "OBJECT"
      [] bl_idname = "NodeSocketImage" -> "IMAGE"
      [] bl_idname = "NodeSocketCollection" -> "COLLECTION"
      [] bl_idname = "NodeSocketTexture" -> "TEXTURE"
      [] bl_idname = "NodeSocketMaterial" -> "MATERIAL"
      [] bl_idname = "NodeSocketRotation" -> "ROTATION"
      [] OTHER -> "FLOAT"

\* the interface sockets declared for a list of inputs or outputs (226-241)
InterfaceSockets(decls) ==
    [j \in 1..Len(decls) |->
        [name |-> decls[j].name,
         socket_type |-> DataTypeToSocketType(decls[j].dtype),
         default_value |-> decls[j].value]]

\* wiring of the call-site node's inputs from position i on (284-288)
RECURSIVE WireGroup(_, _, _, _)
WireGroup(b, node, args, i) ==
    IF i > Len(args) THEN [bpy |-> b, err |-> ""]
    ELSE IF args[i] = None THEN WireGroup(b, node, args, i + 1)
    ELSE IF i > b.nodes[node].nin THEN [bpy |-> b, err |-> "IndexError"]
    ELSE IF IsNodeSocket(args[i])
    THEN WireGroup(LinksNew(b, args[i], node, i - 1), node, args, i + 1)
    ELSE WireGroup(SetDefaultValue(b, node, "in", i - 1, args[i]), node, args, i + 1)

\* "Add the group and connect the arguments" (275-296): the call-site node in
\* tree in_tree instantiating node_tree; what becomes of document, nodes, stack
CallSite(b, in_tree, node_tree, args, nds, stk, md) ==
    LET group_name == IF TreeType = "GeometryNodeTree" THEN "GeometryNodeGroup"
                      ELSE "ShaderNodeGroup"
        node == Len(b.nodes) + 1
        group == b.node_groups[node_tree]
        b1 == [NodesNew(b, in_tree, group_name) EXCEPT
                  !.nodes[node].node_tree = node_tree,
                  !.nodes[node].nin = Len(group.inputs),
                  !.nodes[node].outputs =
                      [j \in 1..Len(group.outputs) |-> group.outputs[j].socket_type]]
        w == WireGroup(b1, node, args, 1)
        nout == Len(group.outputs)
        logical == [j \in 1..nout |-> NodeSocket(node, j - 1)]
    IN IF w.err # ""
       THEN [bpy |-> w.bpy, nodes |-> nds, stack |-> stk, made |-> md, err |-> w.err]
       ELSE [bpy |-> w.bpy, nodes |-> Append(nds, node), err |-> "",
             stack |-> IF nout = 1 THEN Append(stk, logical[1])
                       ELSE IF nout > 1 THEN Append(stk, StructStorage(logical))
                       ELSE stk,
             made |-> IF nout > 1
                      THEN md \cup {[storage |-> StructStorage(logical),
                                     logical |-> logical]}
                      ELSE md]

\* CALL_NODEGROUP (101-104) with execute_node_group (219-258): a known name goes
\* straight to the call site, a new one builds the inner tree and starts the body
CallNodegroup ==
    /\ Running /\ CurOp.op_type = "CALL_NODEGROUP"
    /\ IF CurOp.data.k # "CompiledNodeGroup"
       THEN /\ Raise("AssertionError")
            /\ UNCHANGED <<tree, stack, nodes, variables, function_outputs, bpy, made>>
       ELSE LET node_group == CurOp.data
                args == GetArgs(stack, Len(node_group.inputs))
                rest == GetArgsRest(stack, Len(node_group.inputs))
            IN IF node_group.name \in DOMAIN node_group_trees
               THEN LET c == CallSite(bpy, tree, node_group_trees[node_group.name],
                                      args, nodes, rest, made)
                    IN /\ bpy' = c.bpy /\ nodes' = c.nodes /\ stack' = c.stack
                       /\ made' = c.made
                       /\ IF c.err = "" THEN Continue ELSE Raise(c.err)
                       /\ UNCHANGED <<tree, variables, function_outputs>>
               ELSE IF \E j \in 1..Len(node_group.inputs) :
                           DataTypeToSocketType(node_group.inputs[j].dtype) = ""
                       \/ \E h \in 1..Len(node_group.outputs) :
                           DataTypeToSocketType(node_group.outputs[h].dtype) = ""
               THEN /\ Raise("AssertionError") /\ stack' = rest
                    /\ UNCHANGED <<tree, nodes, variables, function_outputs, bpy, made>>
               ELSE LET node_tree == Len(bpy.node_groups) + 1
                        b1 == [bpy EXCEPT !.node_groups = Append(@,
                                  [name |-> node_group.name,
                                   inputs |-> InterfaceSockets(node_group.inputs),
                                   outputs |-> InterfaceSockets(node_group.outputs)])]
                        group_input == Len(bpy.nodes) + 1
                        group_output == Len(bpy.nodes) + 2
                        b2 == [NodesNew(NodesNew(b1, node_tree, "NodeGroupInput"),
                                        node_tree, "NodeGroupOutput") EXCEPT
                                  !.nodes[group_input].outputs =
                                      [j \in 1..Len(node_group.inputs) |->
                                          DataTypeToSocketType(node_group.inputs[j].dtype)],
                                  !.nodes[group_output].nin = Len(node_group.outputs)]
                    IN /\ bpy' = b2
                       /\ tree' = node_tree
                       /\ variables' = BindArgs(
                              [j \in 1..Len(node_group.inputs) |-> node_group.inputs[j].name],
                              [j \in 1..Len(node_group.inputs) |->
                                  NodeSocket(group_input, j - 1)])
                       /\ function_outputs' = Unset(Len(node_group.outputs))
                       /\ stack' = <<>>
                       /\ frames' = Append(frames,
                              [kind |-> "node_group", body |-> node_group.body, i |-> 1,
                               node_group |-> node_group, args |-> args,
                               node_tree |-> node_tree, group_output |-> group_output,
                               outer_tree |-> tree, outer_vars |-> variables,
                               outer_function_outputs |-> function_outputs,
                               outer_stack |-> rest])
                       /\ err' = err
                       /\ UNCHANGED <<nodes, made>>
    /\ UNCHANGED <<cvars, node_group_trees, current_repeat_zone>>

\* "Connect to the group outputs" from position i on (261-265)
RECURSIVE ConnectGroupOutputs(_, _, _, _)
ConnectGroupOutputs(b, group_output, fouts, i) ==
    IF i > Len(fouts) THEN b
    ELSE IF IsNodeSocket(fouts[i])
    THEN ConnectGroupOutputs(LinksNew(b, fouts[i], group_output, i - 1),
                             group_output, fouts, i + 1)
    ELSE IF fouts[i] # None
    THEN ConnectGroupOutputs(SetDefaultValue(b, group_output, "in", i - 1, fouts[i]),
                             group_output, fouts, i + 1)
    ELSE ConnectGroupOutputs(b, group_output, fouts, i + 1)

\* execute_node_group after the body (260-296): connect the group outputs,
\* restore the caller, register the tree under its name, add the call site
NodeGroupReturn ==
    /\ phase = "interpreting" /\ err = "" /\ frames # <<>>
    /\ Frame.kind = "node_group" /\ Frame.i > Len(Frame.body)
    /\ LET b1 == ConnectGroupOutputs(bpy, Frame.group_output, function_outputs, 1)
           c == CallSite(b1, Frame.outer_tree, Frame.node_tree, Frame.args, nodes,
                         Frame.outer_stack, made)
       IN /\ function_outputs' = Frame.outer_function_outputs
          /\ variables' = Frame.outer_vars
          /\ tree' = Frame.outer_tree
          /\ node_group_trees' =
                 (Frame.node_group.name :> Frame.node_tree) @@ node_group_trees
          /\ bpy' = c.bpy /\ nodes' = c.nodes /\ stack' = c.stack /\ made' = c.made
          /\ IF c.err = ""
             THEN frames' = Advance(Pop(frames)) /\ err' = err
             ELSE Raise(c.err)
    /\ UNCHANGED <<cvars, current_repeat_zone>>

\* CREATE_NODE_GROUP (120-122): Interpreter defines no create_node_group
CreateNodeGroup ==
    /\ Running /\ CurOp.op_type = "CREATE_NODE_GROUP"
    /\ IF CurOp.data.k # "CompiledNodeGroup"
       THEN Raise("AssertionError")
       ELSE Raise("AttributeError")
    /\ UNCHANGED <<cvars, tree, stack, nodes, node_group_trees, variables,
                   function_outputs, current_repeat_zone, bpy, made>>

\* CREATE_REPEAT_ZONE (123-133) with create_repeat_zone (298-329).  The default
\* geometry item removed at 306-310 is left out of the nodes from the start:
\* the input node is created with the Iterations input and the Iteration
\* output only, the output node with no item.
CreateRepeatZone ==
    /\ Running /\ CurOp.op_type = "CREATE_REPEAT_ZONE"
    /\ IF stack = <<>>
       THEN Raise("IndexError") /\ UNCHANGED <<stack, nodes, current_repeat_zone, bpy>>
       ELSE LET iterations == Top(stack)
                input_node == Len(bpy.nodes) + 1
                output_node == Len(bpy.nodes) + 2
                b1 == [NodesNew(NodesNew(bpy, tree, "GeometryNodeRepeatInput"),
                                tree, "GeometryNodeRepeatOutput") EXCEPT
                          !.nodes[input_node].paired_output = output_node]
            IN /\ stack' = Pop(stack)
               /\ Continue
               /\ IF IsInt(iterations) \/ IsNodeSocket(iterations)
                  THEN /\ bpy' = IF IsNodeSocket(iterations)
                                 THEN LinksNew(b1, iterations, input_node, 0)
                                 ELSE SetDefaultValue(b1, input_node, "in", 0, iterations)
                       /\ current_repeat_zone' =
                              <<[input_node |-> input_node, output_node |-> output_node,
                                 iterations |-> iterations]>>
                       /\ nodes' = nodes \o <<input_node, output_node>>
                  ELSE \* print the error and return
                       UNCHANGED <<nodes, current_repeat_zone, bpy>>
    /\ UNCHANGED <<cvars, tree, node_group_trees, variables, function_outputs, made>>

\* bl_idname of an output socket
BlIdname(b, socket) == b.nodes[socket.node].outputs[socket.index + 1]

\* names created by a top-level CREATE_VAR of the body (340-344)
\* the scan also entering the body of a call or of an inner REPEAT_BODY
LoopVars_Nested(body_operations) ==
    LET Created(ops) == {ops[j].data.s :
                            j \in {h \in 1..Len(ops) :
                                      /\ ops[h].op_type = "CREATE_VAR"
                                      /\ IsStr(ops[h].data)}}
        Inner(op) == IF op.op_type = "REPEAT_BODY" /\ IsList(op.data)
                     THEN Created(op.data.items)
                     ELSE IF op.op_type = "CALL_FUNCTION" THEN Created(op.data.body)
                     ELSE {}
    IN Created(body_operations)
       \cup UNION {Inner(body_operations[j]) : j \in 1..Len(body_operations)}

LoopVars(body_operations) ==
    {body_operations[j].data.s :
        j \in {h \in 1..Len(body_operations) :
                  /\ body_operations[h].op_type = "CREATE_VAR"
                  /\ IsStr(body_operations[h].data)}}

\* those bound outside to a socket (346-350)
CapturedNames(body_operations, vs) ==
    {name \in LoopVars(body_operations) :
        name \in DOMAIN vs /\ IsNodeSocket(vs[name])}

\* the orders in which `for name in loop_vars` may visit a set of strings
Orderings(S) ==
    {f \in [1..Cardinality(S) -> S] :
        \A a, c \in 1..Cardinality(S) : f[a] = f[c] => a = c}

\* repeat_items.new on both boundary nodes, for each capture (357-373)
RECURSIVE AddRepeatItems(_, _, _, _, _)
AddRepeatItems(b, input_node, output_node, captured_vars, i) ==
    IF i > Len(captured_vars) THEN b
    ELSE LET socket_type == SocketBlIdnameToRepeatType(
                                BlIdname(b, captured_vars[i].socket))
             bl == CHOOSE t \in {"NodeSocketBool", "NodeSocketInt", "NodeSocketFloat",
                                 "NodeSocketColor", "NodeSocketVector",
                                 "NodeSocketGeometry", "NodeSocketString",
                                 "NodeSocketShader", "NodeSocketObject",
                                 "NodeSocketImage", "NodeSocketCollection",
                                 "NodeSocketTexture", "NodeSocketMaterial",
                                 "NodeSocketRotation"} :
                       SocketBlIdnameToRepeatType(t) = socket_type
         IN AddRepeatItems(
                [b EXCEPT !.nodes[input_node].nin = @ + 1,
                          !.nodes[input_node].outputs = Append(@, bl),
                          !.nodes[output_node].nin = @ + 1,
                          !.nodes[output_node].outputs = Append(@, bl)],
                input_node, output_node, captured_vars, i + 1)

\* external links into the input node, skipping Iterations (380-382)
RECURSIVE ConnectCaptures(_, _, _, _)
ConnectCaptures(b, input_node, captured_vars, i) ==
    IF i > Len(captured_vars) THEN b
    ELSE IF i < b.nodes[input_node].nin
    THEN ConnectCaptures(LinksNew(b, captured_vars[i].socket, input_node, i),
                         input_node, captured_vars, i + 1)
    ELSE ConnectCaptures(b, input_node, captured_vars, i + 1)

\* variables rebound, in capture order, to the sockets node.outputs[i + skip]
\* that exist (386-388 with skip 1, 406-408 with skip 0)
RECURSIVE RebindCaptures(_, _, _, _, _, _)
RebindCaptures(vs, b, node, captured_vars, skip, i) ==
    IF i > Len(captured_vars) THEN vs
    ELSE IF i - 1 + skip < Len(b.nodes[node].outputs)
    THEN RebindCaptures(
             (captured_vars[i].name :> NodeSocket(node, i - 1 + skip)) @@ vs,
             b, node, captured_vars, skip, i + 1)
    ELSE RebindCaptures(vs, b, node, captured_vars, skip, i + 1)

\* REPEAT_BODY (134-136) with execute_repeat_body up to the body (331-392)
RepeatBody ==
    /\ Running /\ CurOp.op_type = "REPEAT_BODY"
    /\ IF ~IsList(CurOp.data)
       THEN Raise("AssertionError") /\ UNCHANGED <<variables, bpy>>
       ELSE IF current_repeat_zone = <<>>
       THEN Continue /\ UNCHANGED <<variables, bpy>>      \* return
       ELSE \E order \in Orderings(CapturedNames(CurOp.data.items, variables)) :
            LET repeat_zone == current_repeat_zone[1]
                input_node == repeat_zone.input_node
                output_node == repeat_zone.output_node
                captured_vars == [j \in 1..Len(order) |->
                                     [name |-> order[j], socket |-> variables[order[j]]]]
                b1 == AddRepeatItems(bpy, input_node, output_node, captured_vars, 1)
                b2 == ConnectCaptures(b1, input_node, captured_vars, 1)
            IN /\ bpy' = b2
               /\ variables' = RebindCaptures(variables, b2, input_node,
                                              captured_vars, 1, 1)
               /\ frames' = Append(frames,
                      [kind |-> "repeat", body |-> CurOp.data.items, i |-> 1,
                       captured_vars |-> captured_vars,
                       input_node |-> input_node, output_node |-> output_node])
               /\ err' = err
    /\ UNCHANGED <<cvars, tree, stack, nodes, node_group_trees, function_outputs,
                   current_repeat_zone, made>>

\* links from the post-body values into the output node (396-402)
RECURSIVE ConnectResults(_, _, _, _, _)
\* the results wired one output-node input further than the capture's own
ConnectResults_Shifted(b, output_node, captured_vars, vs, i) ==
    IF i > Len(captured_vars) THEN b
    ELSE IF /\ i < b.nodes[output_node].nin
            /\ captured_vars[i].name \in DOMAIN vs
            /\ IsNodeSocket(vs[captured_vars[i].name])
    THEN ConnectResults(LinksNew(b, vs[captured_vars[i].name], output_node, i),
                        output_node, captured_vars, vs, i + 1)
    ELSE ConnectResults(b, output_node, captured_vars, vs, i + 1)

ConnectResults(b, output_node, captured_vars, vs, i) ==
    IF i > Len(captured_vars) THEN b
    ELSE IF /\ i - 1 < b.nodes[output_node].nin
            /\ captured_vars[i].name \in DOMAIN vs
            /\ IsNodeSocket(vs[captured_vars[i].name])
    THEN ConnectResults(LinksNew(b, vs[captured_vars[i].name], output_node, i - 1),
                        output_node, captured_vars, vs, i + 1)
    ELSE ConnectResults(b, output_node, captured_vars, vs, i + 1)

\* execute_repeat_body after the body (394-410)
RepeatBodyEnd ==
    /\ phase = "interpreting" /\ err = "" /\ frames # <<>>
    /\ Frame.kind = "repeat" /\ Frame.i > Len(Frame.body)
    /\ bpy' = ConnectResults(bpy, Frame.output_node, Frame.captured_vars, variables, 1)
    /\ variables' = RebindCaptures(variables, bpy, Frame.output_node,
                                   Frame.captured_vars, 0, 1)
    /\ IF current_repeat_zone = <<>>
       THEN Raise("AttributeError") /\ UNCHANGED current_repeat_zone   \* delattr
       ELSE /\ current_repeat_zone' = <<>>
            /\ frames' = Advance(Pop(frames))
            /\ err' = err
    /\ UNCHANGED <<cvars, tree, stack, nodes, node_group_trees, function_outputs, made>>

(***************************************************************************)
(* The typed program consumed by the compiler (the shapes compiler.py      *)
(* reads from backends/type_defs).                                         *)
(***************************************************************************)
Const(value, dtype) ==
    [k |-> "Const", value |-> value, dtype |-> <<dtype>>, stype |-> "SOCKET"]
Var(id, dtype, stype, needs_instantion) ==
    [k |-> "Var", id |-> id, dtype |-> <<dtype>>, stype |-> stype,
     needs_instantion |-> needs_instantion]
NodeCall(node, args, dtype, stype) ==
    [k |-> "NodeCall", node |-> node, args |-> args, dtype |-> <<dtype>>,
     stype |-> stype]
GetOutputExpr(value, index, dtype) ==
    [k |-> "GetOutput", value |-> value, index |-> index, dtype |-> <<dtype>>,
     stype |-> "SOCKET"]
FieldAccess(object, field_name, dtype) ==
    [k |-> "FieldAccess", object |-> object, field_name |-> field_name,
     dtype |-> <<dtype>>, stype |-> "SOCKET"]
FunctionCall(function, args, dtype, stype) ==
    [k |-> "FunctionCall", function |-> function, args |-> args,
     dtype |-> <<dtype>>, stype |-> stype]
TyFunction(name, inputs, outputs, body, is_node_group) ==
    [k |-> "TyFunction", name |-> name, inputs |-> inputs, outputs |-> outputs,
     body |-> body, is_node_group |-> is_node_group]
TyAssign(targets, value) == [k |-> "TyAssign", targets |-> targets, value |-> value]
TyOut(targets, value) == [k |-> "TyOut", targets |-> targets, value |-> value]
TyFieldAssign(target, field_name, value) ==
    [k |-> "TyFieldAssign", target |-> target, field_name |-> field_name,
     value |-> value]
TyLoop(var, start, end, body) ==
    [k |-> "TyLoop", var |-> var, start |-> start, end |-> end, body |-> body]
TyRepeat(iterations, body) ==
    [k |-> "TyRepeat", iterations |-> iterations, body |-> body]

IsExpr(stmt) == stmt.k \in {"Const", "Var", "NodeCall", "GetOutput", "FieldAccess",
                            "FunctionCall"}

(***************************************************************************)
(* The vec3 interface (GI_vec3.py) and the registry (interface.py).        *)
(***************************************************************************)
\* read_component: the operations appended (10-29)
read_component(index, variable_name) ==
    << Operation("GET_VAR", PyStr(variable_name)),
       Operation("CALL_BUILTIN",
                 NodeInstance("ShaderNodeSeparateXYZ", <<>>, <<index>>, <<>>)),
       Operation("GET_OUTPUT", PyInt(index)) >>

\* write_component: the operations appended (31-65)
write_component(index, variable_name, value) ==
    (CASE index = 0 -> <<Operation("PUSH_VALUE", PyStr(value))>>
                       \o read_component(1, variable_name)
                       \o read_component(2, variable_name)
       [] index = 1 -> read_component(0, variable_name)
                       \o <<Operation("PUSH_VALUE", PyStr(value))>>
                       \o read_component(2, variable_name)
       [] index = 2 -> read_component(0, variable_name)
                       \o read_component(1, variable_name)
                       \o <<Operation("PUSH_VALUE", PyStr(value))>>
       [] OTHER -> <<>>)
    \o << Operation("CALL_BUILTIN",
                    NodeInstance("ShaderNodeCombineXYZ", <<>>, <<0>>, <<>>)),
          Operation("BIND_VAR", PyStr(variable_name)) >>

\* IVec3 (92-103): field name -> the component index of its attribute
IVec3 == [base_type |-> "VEC3",
          interfaces |-> ("x" :> 0) @@ ("y" :> 1) @@ ("z" :> 2)]

\* the registry after initialize_interface_system_geometry (70-72)
interfaces_registry == ("VEC3" :> IVec3)

\* TypeInterfaceRegistry.get_type (61-62): <<>> stands for None
get_type(registry, type) ==
    IF type \in DOMAIN registry THEN <<registry[type]>> ELSE <<>>

\* TypeInterfaceDefinition.get_interface (46-47): <<>> stands for None
get_interface(type_def, interface_name) ==
    IF interface_name \in DOMAIN type_def.interfaces
    THEN <<type_def.interfaces[interface_name]>> ELSE <<>>

\* register_type that keeps a definition already registered for the type
register_type_KeepFirst(registry, type_def) ==
    IF type_def.base_type \in DOMAIN registry THEN registry
    ELSE (type_def.base_type :> type_def) @@ registry

\* TypeInterfaceRegistry.register_type (58-59): types[base_type] = type_def
register_type(registry, type_def) ==
    [t \in DOMAIN registry \cup {type_def.base_type} |->
        IF t = type_def.base_type THEN type_def ELSE registry[t]]

\* TypeInterfaceRegistry.get_interface (64-68): <<>> stands for None
Registry_get_interface(registry, type, interface_name) ==
    LET type_def == get_type(registry, type)
    IN IF type_def # <<>>
       THEN IF interface_name \in DOMAIN type_def[1].interfaces
            THEN <<type_def[1].interfaces[interface_name]>> ELSE <<>>
       ELSE <<>>

(***************************************************************************)
(* The compiler (compiler.py).  `c` is the Compiler object: operations,    *)
(* curr_function (<<>> for None), the uuid4 stream still to be drawn, and  *)
(* the exception that ended compilation ("" while none).                   *)
(***************************************************************************)
NewCompiler(uuids) ==
    [operations |-> <<>>, curr_function |-> <<>>, uuids |-> uuids, error |-> ""]

Emit(c, op) == [c EXCEPT !.operations = Append(@, op)]
EmitAll(c, ops) == [c EXCEPT !.operations = @ \o ops]
Fail(c, e) == [c EXCEPT !.error = e]

\* _generate_temp_var_name (37-40): the name built from the next uuid
TempVarName(c, prefix) == prefix \o "_" \o Head(c.uuids)
DrawUuid(c) == [c EXCEPT !.uuids = Tail(@)]

\* back_end.create_input: one input node for a literal, labelled and given
\* the literal as the default value of its output
create_input(c, name, value, dtype) ==
    EmitAll(c, << Operation("CALL_BUILTIN",
                            NodeInstance("ShaderNodeValue", <<>>, <<0>>, <<>>)),
                  Operation("RENAME_NODE", PyStr(name)),
                  Operation("SET_OUTPUT", PyTuple(<<PyInt(0), value>>)) >>)

\* the BIND_VAR / SET_FUNCTION_OUT of each target, from position i on (154-161)
RECURSIVE BindTargets(_, _, _, _)
BindTargets(c, assign_kind, targets, i) ==
    IF i > Len(targets) THEN c
    ELSE IF targets[i] = None THEN BindTargets(c, assign_kind, targets, i + 1)
    ELSE IF assign_kind = "TyAssign"
    THEN IF targets[i].k # "Var" THEN Fail(c, "AssertionError")
         ELSE BindTargets(Emit(c, Operation("BIND_VAR", PyStr(targets[i].id))),
                          assign_kind, targets, i + 1)
    ELSE BindTargets(Emit(c, Operation("SET_FUNCTION_OUT", targets[i])),
                     assign_kind, targets, i + 1)

RECURSIVE compile_expr(_, _)
RECURSIVE compile_statement(_, _)
RECURSIVE compile_statements(_, _, _)
RECURSIVE compile_args(_, _, _)

\* `for stmt in body: self.compile_statement(stmt)` from position i on
compile_statements(c, body, i) ==
    IF i > Len(body) \/ c.error # "" THEN c
    ELSE compile_statements(compile_statement(c, body[i]), body, i + 1)

\* the argument loop of func_call / node_call (203-207, 225-229)
compile_args(c, args, i) ==
    IF i > Len(args) \/ c.error # "" THEN c
    ELSE LET c1 == compile_expr(c, args[i])
         IN compile_args(IF c1.error = "" /\ args[i].stype = "STRUCT"
                         THEN Emit(c1, Operation("GET_OUTPUT", PyInt(0)))
                         ELSE c1,
                         args, i + 1)

\* compile a nested body with self.operations swapped out (77-82, 92-97,
\* 181-187, 193-199): the compiler afterwards, its operations holding the body
compile_body(c, body) == compile_statements([c EXCEPT !.operations = <<>>], body, 1)

\* compile_function (180-190): the compiler afterwards and the CompiledFunction
compile_function(c, func) ==
    LET c1 == compile_body([c EXCEPT !.curr_function = <<func>>], func.body)
    IN [c |-> [c1 EXCEPT !.operations = c.operations],
        compiled |-> CompiledFunction(
                         [j \in 1..Len(func.inputs) |-> func.inputs[j].name],
                         c1.operations, Len(func.outputs))]

\* compile_node_group (192-200)
compile_node_group(c, func) ==
    LET c1 == compile_body([c EXCEPT !.curr_function = <<func>>], func.body)
    IN [c |-> [c1 EXCEPT !.operations = c.operations],
        compiled |-> CompiledNodeGroup(func.name, func.inputs, func.outputs,
                                       c1.operations)]

\* func_call (202-222)
\* func_call that starts the defaults one input too late
func_call_SkipDefault(c, expr) ==
    LET c1 == compile_args(c, expr.args, 1)
        defaults == [j \in 1..(Len(expr.function.inputs) - Len(expr.args) - 1) |->
                        Operation("PUSH_VALUE",
                                  expr.function.inputs[Len(expr.args) + j + 1].value)]
        c2 == EmitAll(c1, defaults)
    IN IF c1.error # "" THEN c1
       ELSE IF expr.function.is_node_group
       THEN LET r == compile_node_group(c2, expr.function)
            IN IF r.c.error # "" THEN r.c
               ELSE Emit(r.c, Operation("CALL_NODEGROUP", r.compiled))
       ELSE LET r == compile_function(c2, expr.function)
            IN IF r.c.error # "" THEN r.c
               ELSE Emit(r.c, Operation("CALL_FUNCTION", r.compiled))

func_call(c, expr) ==
    LET c1 == compile_args(c, expr.args, 1)
        defaults == [j \in 1..(Len(expr.function.inputs) - Len(expr.args)) |->
                        Operation("PUSH_VALUE",
                                  expr.function.inputs[Len(expr.args) + j].value)]
        c2 == EmitAll(c1, defaults)
    IN IF c1.error # "" THEN c1
       ELSE IF expr.function.is_node_group
       THEN LET r == compile_node_group(c2, expr.function)
            IN IF r.c.error # "" THEN r.c
               ELSE Emit(r.c, Operation("CALL_NODEGROUP", r.compiled))
       ELSE LET r == compile_function(c2, expr.function)
            IN IF r.c.error # "" THEN r.c
               ELSE Emit(r.c, Operation("CALL_FUNCTION", r.compiled))

\* node_call (224-233)
node_call(c, expr) ==
    LET c1 == compile_args(c, expr.args, 1)
        defaults == [j \in 1..(Len(expr.node.inputs) - Len(expr.args)) |->
                        Operation("PUSH_VALUE", None)]
    IN IF c1.error # "" THEN c1
       ELSE Emit(EmitAll(c1, defaults), Operation("CALL_BUILTIN", expr.node))

\* var (238-243)
var(c, v) ==
    IF v.needs_instantion
    THEN EmitAll(c, << Operation("CREATE_VAR", PyStr(v.id)),
                       Operation("GET_VAR", PyStr(v.id)) >>)
    ELSE Emit(c, Operation("GET_VAR", PyStr(v.id)))

\* field_access (276-289)
field_access(c, expr) ==
    LET type_interfaces == get_type(interfaces_registry, expr.object.dtype[1])
    IN IF type_interfaces = <<>> THEN Fail(c, "AttributeError")
       ELSE LET interface == get_interface(type_interfaces[1], expr.field_name)
                c1 == compile_expr(c, expr.object)
                temp_var_name == TempVarName(c1, expr.field_name)
                c2 == Emit(DrawUuid(c1), Operation("BIND_VAR", PyStr(temp_var_name)))
            IN IF c1.error # "" THEN c1
               ELSE IF interface = <<>> THEN Fail(c2, "AttributeError")
               ELSE Emit(EmitAll(c2, read_component(interface[1], temp_var_name)),
                         Operation("DESTROY_VAR", PyStr(temp_var_name)))

\* compile_field_assign (249-272)
\* compile_field_assign that compiles and binds the object before the value
compile_field_assign_ObjectFirst(c, field_assign) ==
    LET type_interfaces == get_type(interfaces_registry, field_assign.target.dtype[1])
    IN IF type_interfaces = <<>> THEN Fail(c, "AttributeError")
       ELSE LET interface == get_interface(type_interfaces[1], field_assign.field_name)
                c1 == compile_expr(c, field_assign.target)
                temp_target_name == TempVarName(c1, field_assign.target.id)
                c2 == Emit(DrawUuid(c1), Operation("BIND_VAR", PyStr(temp_target_name)))
                c3 == compile_expr(c2, field_assign.value)
                temp_value_name == TempVarName(c3, field_assign.value.id)
                c4 == Emit(DrawUuid(c3), Operation("BIND_VAR", PyStr(temp_value_name)))
            IN IF c1.error # "" THEN c1
               ELSE IF c3.error # "" THEN c3
               ELSE IF interface = <<>> THEN Fail(c4, "AttributeError")
               ELSE EmitAll(EmitAll(c4, write_component(interface[1], temp_target_name,
                                                        temp_value_name)),
                            << Operation("DESTROY_VAR", PyStr(temp_value_name)),
                               Operation("DESTROY_VAR", PyStr(temp_target_name)) >>)

compile_field_assign(c, field_assign) ==
    LET type_interfaces == get_type(interfaces_registry, field_assign.target.dtype[1])
    IN IF type_interfaces = <<>> THEN Fail(c, "AttributeError")
       ELSE LET interface == get_interface(type_interfaces[1], field_assign.field_name)
                c1 == compile_expr(c, field_assign.value)
                temp_value_name == TempVarName(c1, field_assign.value.id)
                c2 == Emit(DrawUuid(c1), Operation("BIND_VAR", PyStr(temp_value_name)))
                c3 == compile_expr(c2, field_assign.target)
                temp_target_name == TempVarName(c3, field_assign.target.id)
                c4 == Emit(DrawUuid(c3), Operation("BIND_VAR", PyStr(temp_target_name)))
            IN IF c1.error # "" THEN c1
               ELSE IF c3.error # "" THEN c3
               ELSE IF interface = <<>> THEN Fail(c4, "AttributeError")
               ELSE EmitAll(EmitAll(c4, write_component(interface[1], temp_target_name,
                                                        temp_value_name)),
                            << Operation("DESTROY_VAR", PyStr(temp_value_name)),
                               Operation("DESTROY_VAR", PyStr(temp_target_name)) >>)

\* compile_loop (76-89): `copies` is the unrolled output for indices i..end
RECURSIVE Unroll(_, _, _, _)
Unroll(loop, compiled_body, i, end) ==
    IF i > end THEN <<>>
    ELSE (IF loop.var # None
          THEN << Operation("PUSH_VALUE", PyInt(i)),
                  Operation("BIND_VAR", PyStr(loop.var.id)) >>
          ELSE <<>>)
         \o compiled_body \o Unroll(loop, compiled_body, i + 1, end)

\* compile_loop with range(loop.start, loop.end) in place of
\* range(loop.start, loop.end + 1)
compile_loop_ExclusiveEnd(c, loop) ==
    LET c1 == compile_body(c, loop.body)
    IN IF c1.error # "" THEN c1
       ELSE [c1 EXCEPT !.operations =
                c.operations \o Unroll(loop, c1.operations, loop.start, loop.end - 1)]

compile_loop(c, loop) ==
    LET c1 == compile_body(c, loop.body)
    IN IF c1.error # "" THEN c1
       ELSE [c1 EXCEPT !.operations =
                c.operations \o Unroll(loop, c1.operations, loop.start, loop.end)]

\* compile_repeat (91-104)
compile_repeat(c, repeat) ==
    LET c1 == compile_body(c, repeat.body)
        c2 == compile_expr([c1 EXCEPT !.operations = c.operations], repeat.iterations)
    IN IF c1.error # "" THEN c1
       ELSE IF c2.error # "" THEN c2
       ELSE EmitAll(c2, << Operation("CREATE_REPEAT_ZONE", None),
                           Operation("REPEAT_BODY", PyList(c1.operations)) >>)

\* compile_assign_like (106-161)
compile_assign_like(c, assign) ==
    LET targets == assign.targets
    IN IF assign.value.k = "Const"
       THEN IF targets[1] = None THEN c
            ELSE IF assign.k = "TyAssign"
            THEN IF targets[1].k # "Var" THEN Fail(c, "AssertionError")
                 ELSE Emit(create_input(c, targets[1].id, assign.value.value,
                                        assign.value.dtype[1]),
                           Operation("BIND_VAR", PyStr(targets[1].id)))
            ELSE IF targets[1].k # "int" \/ c.curr_function = <<>>
            THEN Fail(c, "AssertionError")
            ELSE Emit(create_input(c,
                          c.curr_function[1].outputs[targets[1].v + 1].name,
                          assign.value.value, assign.value.dtype[1]),
                      Operation("SET_FUNCTION_OUT", targets[1]))
       ELSE LET c1 == compile_expr(c, assign.value)
                c2 == IF Len(targets) > 1
                      THEN IF assign.value.stype = "STRUCT"
                           THEN Emit(c1, Operation("SPLIT_STRUCT", None))
                           ELSE IF assign.value.dtype[1] = "VEC3"
                           THEN EmitAll(c1,
                                   << Operation("CALL_BUILTIN",
                                          NodeInstance("ShaderNodeSeparateXYZ", <<0>>,
                                                       <<0, 1, 2>>, <<>>)),
                                      Operation("SPLIT_STRUCT", None) >>)
                           ELSE IF assign.value.dtype[1] = "RGBA"
                           THEN Fail(c1, "NotImplementedError")
                           ELSE Fail(c1, "AssertionError")
                      ELSE IF assign.k = "TyOut" /\ assign.value.stype = "STRUCT"
                      THEN Emit(c1, Operation("GET_OUTPUT", PyInt(0)))
                      ELSE c1
            IN IF c1.error # "" THEN c1
               ELSE IF c2.error # "" THEN c2
               ELSE BindTargets(c2, assign.k, targets, 1)

\* compile_expr (163-178)
compile_expr(c, expr) ==
    IF c.error # "" THEN c
    ELSE CASE expr.k = "Const" -> Emit(c, Operation("PUSH_VALUE", expr.value))
           [] expr.k = "Var" -> var(c, expr)
           [] expr.k = "NodeCall" -> node_call(c, expr)
           [] expr.k = "GetOutput" ->
                  LET c1 == compile_expr(c, expr.value)
                  IN IF c1.error # "" THEN c1
                     ELSE Emit(c1, Operation("GET_OUTPUT", PyInt(expr.index)))
           [] expr.k = "FieldAccess" -> field_access(c, expr)
           [] expr.k = "FunctionCall" -> func_call(c, expr)
           [] OTHER -> Fail(c, "AssertionError")

\* compile_statement (58-74)
compile_statement(c, stmt) ==
    LET c1 == CASE IsExpr(stmt) -> compile_expr(c, stmt)
                [] stmt.k \in {"TyAssign", "TyOut"} -> compile_assign_like(c, stmt)
                [] stmt.k = "TyFieldAssign" -> compile_field_assign(c, stmt)
                [] stmt.k = "TyLoop" -> compile_loop(c, stmt)
                [] stmt.k = "TyRepeat" -> compile_repeat(c, stmt)
                [] OTHER -> Fail(c, "AssertionError")
    IN IF c.error # "" THEN c
       ELSE IF c1.error # "" THEN c1
       ELSE Emit(c1, Operation("END_OF_STATEMENT", None))

(***************************************************************************)
(* Inputs: operation sequences handed directly to the interpreter, and     *)
(* typed programs handed to the compiler.                                  *)
(***************************************************************************)
\* an input node: no argument, one float output
ValueNode == Operation("CALL_BUILTIN", NodeInstance("ShaderNodeValue", <<>>, <<0>>, <<>>))
\* a node with a single vector output, its inputs left at their defaults
VectorNode ==
    Operation("CALL_BUILTIN", NodeInstance("ShaderNodeCombineXYZ", <<>>, <<0>>, <<>>))
\* the decompose node exposing the listed outputs
Separate(outputs) ==
    Operation("CALL_BUILTIN", NodeInstance("ShaderNodeSeparateXYZ", <<0>>, outputs, <<>>))

\* output lists of 2..MaxOutputs slots of the decompose node
OutputLists == UNION {[1..n -> 0..2] : n \in 2..MaxOutputs}

\* orders in which a body may set its n outputs
OutputOrders(n) == {[j \in 1..n |-> j - 1], [j \in 1..n |-> n - j]}

\* a body that creates one input node per output and records it, in `order`
RECURSIVE SetOutputs(_, _)
SetOutputs(order, i) ==
    IF i > Len(order) THEN <<>>
    ELSE << ValueNode, Operation("SET_FUNCTION_OUT", PyInt(order[i])) >>
         \o SetOutputs(order, i + 1)

FloatDecls(prefix, n) ==
    [j \in 1..n |-> Decl(prefix \o ToString(j), "FLOAT", None)]

\* struct from a builtin, then GET_OUTPUT i
BuiltinStruct(outputs, i) ==
    <<VectorNode, Separate(outputs), Operation("GET_OUTPUT", PyInt(i))>>

\* struct from a function whose body sets its outputs in `order`, then GET_OUTPUT i
FunctionStruct(order, i) ==
    <<Operation("CALL_FUNCTION",
                CompiledFunction(<<>>, SetOutputs(order, 1), Len(order))),
      Operation("GET_OUTPUT", PyInt(i))>>

\* struct from a node group whose body sets its outputs in `order`, then GET_OUTPUT i
GroupStruct(order, i) ==
    <<Operation("CALL_NODEGROUP",
                CompiledNodeGroup("g", <<>>, FloatDecls("o", Len(order)),
                                  SetOutputs(order, 1))),
      Operation("GET_OUTPUT", PyInt(i))>>

BuiltinStructPrograms ==
    {BuiltinStruct(outputs, i) : outputs \in OutputLists, i \in 0..(MaxOutputs - 1)}

FunctionStructPrograms ==
    UNION {{FunctionStruct(order, i) : order \in OutputOrders(n), i \in 0..(n - 1)} :
              n \in 2..MaxOutputs}

GroupStructPrograms ==
    UNION {{GroupStruct(order, i) : order \in OutputOrders(n), i \in 0..(n - 1)} :
              n \in 2..MaxOutputs}

\* n copies of a sequence
RECURSIVE Copies(_, _)
Copies(ops, n) == IF n <= 0 THEN <<>> ELSE ops \o Copies(ops, n - 1)

\* a function with N inputs p1..pN and m outputs: output j is argument
\* (j mod N) + 1, or a fresh input node when N = 0
ArgFunction(N, m) ==
    CompiledFunction(
        [j \in 1..N |-> "p" \o ToString(j)],
        [h \in 1..(2 * m) |->
            IF h % 2 = 1
            THEN IF N = 0 THEN ValueNode
                 ELSE Operation("GET_VAR",
                                PyStr("p" \o ToString((((h - 1) \div 2) % N) + 1)))
            ELSE Operation("SET_FUNCTION_OUT", PyInt((h - 1) \div 2))]
        \o <<Operation("END_OF_STATEMENT", None)>>,
        m)

\* a function whose body loads the caller's variable "a"
OuterReader(N) ==
    CompiledFunction([j \in 1..N |-> "p" \o ToString(j)],
                     <<Operation("GET_VAR", PyStr("a"))>>, 1)

Callees == {ArgFunction(N, m) : N \in 0..MaxArgs, m \in 0..2}
               \cup {OuterReader(N) : N \in 0..MaxArgs}

\* a call site: `below` literals under the arguments, the arguments, the call
CallSiteOps(f, below) ==
    Copies(<<Operation("PUSH_VALUE", PyInt(7))>>, below)
    \o Copies(<<ValueNode>>, Len(f.inputs))
    \o <<Operation("CALL_FUNCTION", f)>>

\* the call made at top level, variable "a" bound
CallTop(f, below) ==
    <<ValueNode, Operation("CREATE_VAR", PyStr("a"))>> \o CallSiteOps(f, below)
    \o <<Operation("END_OF_STATEMENT", None)>>

\* the call made from inside a function that has its one output recorded and
\* its parameter q bound
CallNested(f, below) ==
    <<ValueNode, Operation("CREATE_VAR", PyStr("a")), ValueNode,
      Operation("CALL_FUNCTION",
          CompiledFunction(<<"q">>,
              <<Operation("GET_VAR", PyStr("q")),
                Operation("SET_FUNCTION_OUT", PyInt(0))>>
              \o CallSiteOps(f, below)
              \o <<Operation("END_OF_STATEMENT", None)>>, 1))>>

CallPrograms ==
    {CallTop(f, below) : f \in Callees, below \in 0..1}
    \cup {CallNested(f, below) : f \in Callees, below \in 0..1}

\* the node group "g": one input x, one output y = x
GroupG == CompiledNodeGroup("g", <<Decl("x", "FLOAT", None)>>,
                            <<Decl("y", "FLOAT", None)>>,
                            <<Operation("GET_VAR", PyStr("x")),
                              Operation("SET_FUNCTION_OUT", PyInt(0))>>)
CallG == <<ValueNode, Operation("CALL_NODEGROUP", GroupG)>>

\* a node group with no input whose body calls "g" n times
GroupCalling(name, n) ==
    CompiledNodeGroup(name, <<>>, <<Decl("y", "FLOAT", None)>>,
                      Copies(CallG \o <<Operation("END_OF_STATEMENT", None)>>, n - 1)
                      \o CallG \o <<Operation("SET_FUNCTION_OUT", PyInt(0))>>)

\* "g" called n times at top level
CallsAtTop(n) == Copies(CallG \o <<Operation("END_OF_STATEMENT", None)>>, n)

\* n calls of a function whose body calls "g"
CallsInFunction(n) ==
    Copies(<<Operation("CALL_FUNCTION",
               CompiledFunction(<<>>,
                   CallG \o <<Operation("SET_FUNCTION_OUT", PyInt(0))>>, 1)),
             Operation("END_OF_STATEMENT", None)>>, n)

\* two calls of a group "h" whose body calls "g" n times, then "g" at top level
CallsInGroup(n) ==
    Copies(<<Operation("CALL_NODEGROUP", GroupCalling("h", n)),
             Operation("END_OF_STATEMENT", None)>>, 2) \o CallG

\* "g" called in the body of a repeat zone and after it
CallsInRepeat(n) ==
    <<Operation("PUSH_VALUE", PyInt(n)), Operation("CREATE_REPEAT_ZONE", None),
      Operation("REPEAT_BODY", PyList(CallG \o <<Operation("END_OF_STATEMENT", None)>>))>>
    \o CallG

\* a group named "g" whose body calls "g" n times
CallsInSameName(n) == <<Operation("CALL_NODEGROUP", GroupCalling("g", n))>>

GroupCallPrograms ==
    UNION {{CallsAtTop(n), CallsInFunction(n), CallsInGroup(n), CallsInRepeat(n),
            CallsInSameName(n)} : n \in 1..MaxCalls}

\* the operations of a component read, the variable bound by CREATE_VAR
ReadPrograms ==
    {<<VectorNode, Operation("CREATE_VAR", PyStr("v"))>> \o read_component(i, "v") :
        i \in 0..2}

\* a loop body that recreates each of the listed variables from a fresh node
RECURSIVE Recreate(_, _)
Recreate(names, i) ==
    IF i > Len(names) THEN <<>>
    ELSE <<Operation("GET_VAR", PyStr(names[i])),
           Operation("CALL_BUILTIN",
                     NodeInstance("ShaderNodeSeparateXYZ", <<0>>, <<0>>, <<>>)),
           Operation("CREATE_VAR", PyStr(names[i])),
           Operation("END_OF_STATEMENT", None)>> \o Recreate(names, i + 1)

\* a statement that binds a name the enclosing environment does not have
BindLocal ==
    <<ValueNode, Operation("CREATE_VAR", PyStr("t")),
      Operation("END_OF_STATEMENT", None)>>

\* a complete repeat zone of its own, whose body recreates w
InnerRepeat ==
    <<Operation("PUSH_VALUE", PyInt(3)), Operation("CREATE_REPEAT_ZONE", None),
      Operation("REPEAT_BODY", PyList(Recreate(<<"w">>, 1))),
      Operation("END_OF_STATEMENT", None)>>

\* v and w bound, then a repeat zone whose count is pushed by `count` and
\* whose body recreates the listed names and then runs `tail`
RepeatOver(count, names, tail) ==
    <<ValueNode, Operation("CREATE_VAR", PyStr("v")),
      VectorNode, Operation("CREATE_VAR", PyStr("w"))>>
    \o <<count, Operation("CREATE_REPEAT_ZONE", None),
         Operation("REPEAT_BODY", PyList(Recreate(names, 1) \o tail)),
         Operation("END_OF_STATEMENT", None)>>

\* the count a literal, a socket or a string
RepeatCounts == {Operation("PUSH_VALUE", PyInt(2)), ValueNode,
                 Operation("PUSH_VALUE", PyStr("n"))}

\* a call whose body creates w: a nested body of the enclosing sequence
CreateInCall ==
    <<Operation("CALL_FUNCTION",
                CompiledFunction(<<>>, <<VectorNode, Operation("CREATE_VAR", PyStr("w")),
                                         Operation("END_OF_STATEMENT", None)>>, 0)),
      Operation("END_OF_STATEMENT", None)>>

\* v and w bound to sockets, s to a struct and n to a literal, then a repeat
\* zone whose body recreates the listed names and then runs `nested`
CaptureOver(names, nested) ==
    <<ValueNode, Operation("CREATE_VAR", PyStr("v")),
      VectorNode, Operation("CREATE_VAR", PyStr("w")),
      VectorNode, Separate(<<0, 1>>), Operation("CREATE_VAR", PyStr("s")),
      Operation("PUSH_VALUE", PyInt(4)), Operation("CREATE_VAR", PyStr("n")),
      Operation("PUSH_VALUE", PyInt(2)), Operation("CREATE_REPEAT_ZONE", None),
      Operation("REPEAT_BODY", PyList(Recreate(names, 1) \o nested)),
      Operation("END_OF_STATEMENT", None)>>

CapturePrograms ==
    {CaptureOver(names, nested) :
        names \in {<<"v">>, <<"s">>, <<"n", "v">>, <<"v", "s", "w">>, <<"u", "n">>},
        nested \in {<<>>, CreateInCall}}

RepeatPrograms ==
    {RepeatOver(count, names, tail) :
        count \in RepeatCounts,
        names \in {<<"v">>, <<"v", "w">>, <<"u">>},
        tail \in {<<>>, BindLocal, InnerRepeat}}

\* one sequence for each remaining instruction
OtherPrograms ==
    { <<ValueNode, Operation("RENAME_NODE", PyStr("n")),
        Operation("SET_OUTPUT", PyTuple(<<PyInt(0), PyInt(5)>>)),
        Operation("CREATE_VAR", PyStr("a")), Operation("GET_VAR", PyStr("a"))>>,
      <<Operation("CREATE_NODE_GROUP", GroupG)>> \o CallG,
      <<ValueNode, Operation("BIND_VAR", PyStr("a"))>>,
      <<ValueNode, Operation("CREATE_VAR", PyStr("a")),
        Operation("DESTROY_VAR", PyStr("a"))>>,
      <<VectorNode, Separate(<<0, 1, 2>>), Operation("SPLIT_STRUCT", None),
        Operation("CREATE_VAR", PyStr("a")), Operation("CREATE_VAR", PyStr("b")),
        Operation("CREATE_VAR", PyStr("c"))>>,
      <<Operation("REPEAT_BODY", PyList(<<ValueNode>>)), ValueNode>>,
      <<ValueNode, VectorNode,
        Operation("CALL_BUILTIN", NodeInstance("ShaderNodeValue", <<>>, <<>>, <<>>)),
        Separate(<<>>), Separate(<<0, 1>>)>> }

OperationSequences ==
    BuiltinStructPrograms \cup FunctionStructPrograms \cup GroupStructPrograms
    \cup CallPrograms \cup GroupCallPrograms \cup ReadPrograms \cup RepeatPrograms
    \cup CapturePrograms \cup OtherPrograms

\* typed expressions used by the typed programs
VectorCall == NodeCall(NodeInstance("ShaderNodeCombineXYZ", <<0, 1, 2>>, <<0>>, <<>>),
                       <<>>, "VEC3", "SOCKET")
ValueCall == NodeCall(NodeInstance("ShaderNodeValue", <<>>, <<0>>, <<>>),
                      <<>>, "FLOAT", "SOCKET")
SeparateCall(arg, n) ==
    NodeCall(NodeInstance("ShaderNodeSeparateXYZ", <<0>>, [j \in 1..n |-> j - 1], <<>>),
             <<arg>>, "FLOAT", IF n > 1 THEN "STRUCT" ELSE "SOCKET")
V(id, dtype) == Var(id, dtype, "SOCKET", FALSE)

Fields == {"x", "y", "z"}

\* obj = vec(); val = value(); obj.f = val; r = obj.g
FieldTop(f, g) ==
    <<TyAssign(<<V("obj", "VEC3")>>, VectorCall),
      TyAssign(<<V("val", "FLOAT")>>, ValueCall),
      TyFieldAssign(V("obj", "VEC3"), f, V("val", "FLOAT")),
      TyAssign(<<V("r", "FLOAT")>>, FieldAccess(V("obj", "VEC3"), g, "FLOAT"))>>

\* h(vec(), value()) where h(obj, val) is: obj.f = val; out r = obj.g
FieldInFunction(f, g) ==
    <<FunctionCall(
         TyFunction("h", <<Decl("obj", "VEC3", None), Decl("val", "FLOAT", None)>>,
                    <<Decl("r", "FLOAT", None)>>,
                    <<TyFieldAssign(V("obj", "VEC3"), f, V("val", "FLOAT")),
                      TyOut(<<PyInt(0)>>, FieldAccess(V("obj", "VEC3"), g, "FLOAT"))>>,
                    FALSE),
         <<VectorCall, ValueCall>>, "FLOAT", "SOCKET")>>

\* h(vec()) where h(obj) is: out r = obj.g
ReadInFunction(g) ==
    <<FunctionCall(
         TyFunction("h", <<Decl("obj", "VEC3", None)>>, <<Decl("r", "FLOAT", None)>>,
                    <<TyOut(<<PyInt(0)>>, FieldAccess(V("obj", "VEC3"), g, "FLOAT"))>>,
                    FALSE),
         <<VectorCall>>, "FLOAT", "SOCKET")>>

FieldPrograms ==
    {FieldTop(f, g) : f \in Fields, g \in Fields}
    \cup {FieldInFunction(f, g) : f \in Fields, g \in Fields}
    \cup {ReadInFunction(g) : g \in Fields}

\* target lists of n targets, each kept or discarded
TargetLists(n, kept) ==
    {[j \in 1..n |-> IF j \in keep THEN kept[j] ELSE None] : keep \in SUBSET (1..n)}

\* the values with n components: a struct of n outputs, or (n = 3) a vec3
\* that is not decomposed yet
ComponentValues(n) ==
    {SeparateCall(VectorCall, n)} \cup (IF n = 3 THEN {VectorCall} ELSE {})

VarTargets(n) == [j \in 1..n |-> V("t" \o ToString(j - 1), "FLOAT")]
OutTargets(n) == [j \in 1..n |-> PyInt(j - 1)]

\* t0, .., t(n-1) = value  at top level
AssignTop(targets, value) == <<TyAssign(targets, value)>>

\* m() where m is: out o1, .., on = value
OutInFunction(targets, value) ==
    <<FunctionCall(
         TyFunction("m", <<>>, FloatDecls("o", Len(targets)),
                    <<TyOut(targets, value)>>, FALSE),
         <<>>, "FLOAT", "STRUCT")>>

MultiTargetPrograms ==
    UNION {
      {AssignTop(targets, value) :
          targets \in TargetLists(n, VarTargets(n)), value \in ComponentValues(n)}
      \cup
      {OutInFunction(targets, value) :
          targets \in TargetLists(n, OutTargets(n)), value \in ComponentValues(n)}
      : n \in 2..3}

\* v = value(); repeat n { v = f(v) }
RepeatTop(n) ==
    <<TyAssign(<<V("v", "FLOAT")>>, ValueCall),
      TyRepeat(Const(PyInt(n), "INT"),
               <<TyAssign(<<V("v", "FLOAT")>>, SeparateCall(V("v", "FLOAT"), 1))>>)>>

\* h(value()) where h(v) is: repeat n { v = f(v) }; out r = v
RepeatInFunction(n) ==
    <<FunctionCall(
         TyFunction("h", <<Decl("v", "FLOAT", None)>>, <<Decl("r", "FLOAT", None)>>,
                    <<TyRepeat(Const(PyInt(n), "INT"),
                               <<TyAssign(<<V("v", "FLOAT")>>,
                                          SeparateCall(V("v", "FLOAT"), 1))>>),
                      TyOut(<<PyInt(0)>>, V("v", "FLOAT"))>>,
                    FALSE),
         <<ValueCall>>, "FLOAT", "SOCKET")>>

RepeatSources ==
    {RepeatTop(n) : n \in 1..2} \cup {RepeatInFunction(n) : n \in 1..2}

\* the most iterations a bounded loop makes
MaxIterations == 3

\* for loop_var in start..end { body }
LoopProgram(loop_var, start, end, body) == <<TyLoop(loop_var, start, end, body)>>

\* loops of 0..MaxIterations iterations from 0 or 1, with and without a loop
\* variable, over an assignment or over an expression and an assignment
LoopPrograms ==
    {LoopProgram(loop_var, start, start + n - 1, body) :
        loop_var \in {V("i", "INT"), None}, start \in 0..1, n \in 0..MaxIterations,
        body \in {<<TyAssign(<<V("a", "FLOAT")>>, ValueCall)>>,
                  <<VectorCall, TyAssign(<<V("a", "FLOAT")>>, V("i", "INT"))>>}}

\* combine_xyz(args) with at most its three declared arguments given
BuiltinCall(args) ==
    <<NodeCall(NodeInstance("ShaderNodeCombineXYZ", <<0, 1, 2>>, <<0>>, <<>>),
               args, "VEC3", "SOCKET")>>

\* an argument is a node's socket or a falsy literal
ArgLists ==
    UNION {[1..n -> {ValueCall, Const(PyInt(0), "INT"), Const(PyBool(FALSE), "BOOL")}] :
              n \in 0..3}

BuiltinCallPrograms == {BuiltinCall(args) : args \in ArgLists}

\* a read and a write of field f of a variable of type dtype
FieldLookups(dtype, f) ==
    {<<FieldAccess(V("obj", dtype), f, "FLOAT")>>,
     <<TyFieldAssign(V("obj", dtype), f, V("val", "FLOAT"))>>}

\* a type without a registered interface, and a field the vec3 interface
\* does not have
LookupFailurePrograms == FieldLookups("FLOAT", "x") \cup FieldLookups("VEC3", "w")

\* an assignment or a function output whose value is a literal, the single
\* target kept or discarded
LiteralPrograms ==
    {AssignTop(targets, Const(value, "INT")) :
        targets \in TargetLists(1, VarTargets(1)), value \in {PyInt(0), PyInt(1)}}
    \cup
    {OutInFunction(targets, Const(value, "INT")) :
        targets \in TargetLists(1, OutTargets(1)), value \in {PyInt(0), PyInt(1)}}

\* f() whose body first calls g() (a function or a node group) as a
\* statement and then sets its own output f1 to a literal
CallThenOut(is_node_group) ==
    <<FunctionCall(
         TyFunction("f", <<>>, FloatDecls("f", 1),
                    <<FunctionCall(
                         TyFunction("g", <<>>, FloatDecls("g", 1),
                                    <<TyOut(<<PyInt(0)>>, ValueCall)>>, is_node_group),
                         <<>>, "FLOAT", "SOCKET"),
                      TyOut(<<PyInt(0)>>, Const(PyInt(1), "INT"))>>,
                    FALSE),
         <<>>, "FLOAT", "SOCKET")>>

\* a call of h, a function or a node group with n declared inputs that all
\* have a default value, with the given arguments
DefaultedCall(n, args, is_node_group) ==
    <<FunctionCall(
         TyFunction("h", [j \in 1..n |-> Decl("a" \o ToString(j), "FLOAT", PyInt(j))],
                    FloatDecls("r", 1), <<TyOut(<<PyInt(0)>>, ValueCall)>>,
                    is_node_group),
         args, "FLOAT", "SOCKET")>>

\* the arguments a socket or a struct, fewer than or as many as the inputs
ArgPrograms ==
    UNION {{DefaultedCall(n, args, is_node_group) :
               args \in UNION {[1..m -> {ValueCall, SeparateCall(VectorCall, 2)}] :
                                  m \in 0..n},
               is_node_group \in BOOLEAN}
           : n \in 0..MaxArgs}

TypedPrograms ==
    {CallThenOut(is_node_group) : is_node_group \in BOOLEAN} \cup ArgPrograms \cup
    FieldPrograms \cup MultiTargetPrograms \cup RepeatSources \cup LoopPrograms
    \cup BuiltinCallPrograms \cup LookupFailurePrograms \cup LiteralPrograms

\* the uuid4 prefixes _generate_temp_var_name may draw
Uuids == {"1a2b3c4d", "5e6f7a8b"}
\* the number of temporaries one typed program needs
MaxTemps == 3

(***************************************************************************)
(* The pipeline.                                                           *)
(***************************************************************************)
\* Interpreter.__init__ (18-28), before anything is compiled or interpreted
Init ==
    /\ \/ /\ typed_ast \in TypedPrograms
          /\ operations = <<>>
          /\ phase = "source"
       \/ /\ typed_ast = <<>>
          /\ operations \in OperationSequences
          /\ phase = "compiled"
    /\ compile_error = ""
    /\ tree = 0
    /\ stack = <<>>
    /\ nodes = <<>>
    /\ node_group_trees = <<>>
    /\ variables = <<>>
    /\ function_outputs = <<>>
    /\ current_repeat_zone = <<>>
    /\ bpy = EmptyDocument
    /\ frames = <<>>
    /\ err = ""
    /\ made = {}
    /\ types = interfaces_registry
    /\ latest = interfaces_registry
    /\ returned = [call |-> "initialize_interface_system_geometry"]

\* Compiler.compile (47-56) on the typed program
Compile ==
    /\ phase = "source"
    /\ \E uuids \in [1..MaxTemps -> Uuids] :
          LET c == compile_statements(NewCompiler(uuids), typed_ast, 1)
          IN /\ operations' = c.operations
             /\ compile_error' = c.error
             /\ phase' = IF c.error = "" THEN "compiled" ELSE "failed"
    /\ UNCHANGED <<typed_ast, interp, rvars>>

\* the pass over the operations starts: each is handed to Interpreter.operation
Interpret ==
    /\ phase = "compiled"
    /\ phase' = "interpreting"
    /\ frames' = <<[kind |-> "pass", body |-> operations, i |-> 1]>>
    /\ UNCHANGED <<typed_ast, operations, compile_error, tree, stack, nodes,
                   node_group_trees, variables, function_outputs,
                   current_repeat_zone, bpy, err, made, rvars>>

Next ==
    \/ Compile
    \/ Interpret
    \/ PushValue
    \/ CreateVar
    \/ GetVar
    \/ GetOutput
    \/ SetOutput
    \/ SetFunctionOut
    \/ SplitStruct
    \/ CallFunction
    \/ FunctionReturn
    \/ CallNodegroup
    \/ NodeGroupReturn
    \/ CallBuiltin
    \/ RenameNode
    \/ CreateNodeGroup
    \/ CreateRepeatZone
    \/ RepeatBody
    \/ RepeatBodyEnd
    \/ EndOfStatement
    \/ Unimplemented

Spec == Init /\ [][Next]_vars

(***************************************************************************)
(* The interface registry on its own (backends/interface.py, 53-68): a     *)
(* fresh TypeInterfaceRegistry, then any sequence of register_type and     *)
(* get_interface calls.                                                    *)
(***************************************************************************)
\* the definitions handed to register_type: a base type and a dict from
\* interface names to attributes (an attribute is told by its component index)
TypeDefinitions ==
    {[base_type |-> t, interfaces |-> f] :
        t \in {"VEC3", "FLOAT"},
        f \in UNION {[S -> {0, 1}] : S \in SUBSET {"x", "y"}}}

NoCall == [call |-> "__init__", type |-> "", interface_name |-> "", result |-> <<>>]

RegistryInit ==
    /\ types = <<>>                      \* field(default_factory=dict)
    /\ latest = <<>>
    /\ returned = NoCall
    /\ typed_ast = <<>> /\ operations = <<>> /\ phase = "registry"
    /\ compile_error = ""
    /\ tree = 0 /\ stack = <<>> /\ nodes = <<>> /\ node_group_trees = <<>>
    /\ variables = <<>> /\ function_outputs = <<>> /\ current_repeat_zone = <<>>
    /\ bpy = EmptyDocument /\ frames = <<>> /\ err = "" /\ made = {}

RegisterType ==
    /\ phase = "registry"
    /\ \E type_def \in TypeDefinitions :
          /\ types' = register_type(types, type_def)
          /\ latest' = (type_def.base_type :> type_def) @@ latest
          /\ returned' = [NoCall EXCEPT !.call = "register_type"]
    /\ UNCHANGED <<typed_ast, operations, phase, compile_error, interp>>

GetInterface ==
    /\ phase = "registry"
    /\ \E type \in {"VEC3", "FLOAT"}, interface_name \in {"x", "y"} :
          returned' = [call |-> "get_interface", type |-> type,
                       interface_name |-> interface_name,
                       result |-> Registry_get_interface(types, type, interface_name)]
    /\ UNCHANGED <<typed_ast, operations, phase, compile_error, interp,
                   types, latest>>

RegistryNext == RegisterType \/ GetInterface

RegistrySpec == RegistryInit /\ [][RegistryNext]_vars

\* the pass is over: every operation was executed, or one raised
Finished == /\ phase = "interpreting" /\ err = ""
            /\ Len(frames) = 1 /\ Frame.i > Len(Frame.body)
Done == Finished \/ err # ""

\* the operation the top handler executed last
PrevOp == Frame.body[Frame.i - 1]
AfterOp(op_type) == /\ phase = "interpreting" /\ err = "" /\ frames # <<>>
                    /\ Frame.i > 1 /\ Frame.i - 1 <= Len(Frame.body)
                    /\ PrevOp.op_type = op_type

\* the node ids of a type
NodesOfType(type) == {n \in 1..Len(bpy.nodes) : bpy.nodes[n].type = type}

(***************************************************************************)
(* C1.  Struct round trip: GET_OUTPUT i on a struct of k >= 2 components   *)
(* built by CALL_BUILTIN, CALL_FUNCTION or CALL_NODEGROUP pushes the       *)
(* component that was logically at position i when the struct was built:   *)
(* the socket of the i-th listed output slot of the builtin node, the      *)
(* socket recorded by SET_FUNCTION_OUT i, output i of the call-site node.  *)
(***************************************************************************)
\* a GET_OUTPUT step on a struct pushes the component construction put at i
C1_Step ==
    (/\ Running /\ CurOp.op_type = "GET_OUTPUT" /\ CurOp.data.k = "int"
     /\ stack # <<>> /\ IsList(Top(stack)))
    => \A m \in made :
          (m.storage = Top(stack) /\ CurOp.data.v \in 0..(Len(m.logical) - 1))
          => /\ err' = ""
             /\ stack' = Append(Pop(stack), m.logical[CurOp.data.v + 1])

\* the result of each struct program, read off the finished pass
C1_Results ==
    /\ \A outputs \in OutputLists : \A i \in 0..(Len(outputs) - 1) :
          (operations = BuiltinStruct(outputs, i) /\ Done)
          => /\ err = ""
             /\ stack = <<NodeSocket(2, outputs[i + 1])>>
    /\ \A n \in 2..MaxOutputs : \A order \in OutputOrders(n) : \A i \in 0..(n - 1) :
          /\ (operations = FunctionStruct(order, i) /\ Done)
             => /\ err = ""
                \* the j-th input node of the body was recorded as output order[j]
                /\ \E j \in 1..n : order[j] = i /\ stack = <<NodeSocket(j, 0)>>
          /\ (operations = GroupStruct(order, i) /\ Done)
             => /\ err = ""
                /\ \E site \in NodesOfType("GeometryNodeGroup") :
                      stack = <<NodeSocket(site, i)>>

C1_StructRoundTrip == []C1_Results /\ [][C1_Step]_vars

\* a finished struct program whose GET_OUTPUT selected the last component
C1_Witness ==
    /\ Finished
    /\ operations \in BuiltinStructPrograms \cup FunctionStructPrograms
                      \cup GroupStructPrograms
    /\ made # {}
    /\ \E m \in made : operations[Len(operations)].data.v = Len(m.logical) - 1
    /\ Len(stack) = 1 /\ IsNodeSocket(stack[1])

(***************************************************************************)
(* C10.  Call convention and isolation: CALL_FUNCTION on a function with   *)
(* N >= 0 inputs pops exactly the top N values (nothing when N = 0), binds *)
(* input j to the j-th argument in push order, and starts the body with an *)
(* empty stack, an all-unset output array of the declared arity and an     *)
(* environment of exactly the N input names; when the call returns, the    *)
(* caller's environment and output array are what they were before the     *)
(* call and its stack is the pre-call stack minus the N arguments plus the *)
(* result.                                                                 *)
(***************************************************************************)
\* the step that enters the body
C10_Enter ==
    (/\ Running /\ CurOp.op_type = "CALL_FUNCTION"
     /\ CurOp.data.k = "CompiledFunction"
     /\ Len(stack) >= Len(CurOp.data.inputs))
    => LET f == CurOp.data
           N == Len(f.inputs)
       IN /\ err' = ""
          /\ Len(frames') = Len(frames) + 1
          /\ frames'[Len(frames')].body = f.body /\ frames'[Len(frames')].i = 1
          /\ stack' = <<>>
          /\ Len(function_outputs') = f.num_outputs
          /\ \A j \in 1..f.num_outputs : function_outputs'[j] = None
          /\ DOMAIN variables' = {f.inputs[j] : j \in 1..N}
          /\ \A j \in 1..N : variables'[f.inputs[j]] = stack[Len(stack) - N + j]

\* while a body runs, the handlers suspended under it keep their locals; the
\* one resumed by a return only moves on to its next operation
C10_Suspended ==
    /\ \A j \in 1..Len(frames) :
          (j < Len(frames) /\ j < Len(frames')) => frames'[j] = frames[j]
    /\ Len(frames') < Len(frames)
       => /\ Len(frames') = Len(frames) - 1
          /\ frames'[Len(frames')] =
                 [frames[Len(frames')] EXCEPT !.i = @ + 1]

\* what a call leaves behind, for each call program: `base` nodes exist
\* before the arguments' nodes are created
C10_CallResult(N, m, base) ==
    LET out(j) == IF N = 0 THEN NodeSocket(base + 1 + j, 0)
                  ELSE NodeSocket(base + (j % N) + 1, 0)
    IN IF m = 0 THEN <<>>
       ELSE IF m = 1 THEN <<out(0)>>
       ELSE <<PyList([j \in 1..m |-> out(m - j)])>>

C10_Returned ==
    \A N \in 0..MaxArgs : \A m \in 0..2 : \A below \in 0..1 :
       /\ (/\ operations = CallTop(ArgFunction(N, m), below)
           /\ AfterOp("CALL_FUNCTION") /\ Len(frames) = 1)
          => /\ stack = Copies(<<PyInt(7)>>, below) \o C10_CallResult(N, m, 1)
             /\ variables = ("a" :> NodeSocket(1, 0))
             /\ function_outputs = <<>>
       /\ (/\ operations = CallNested(ArgFunction(N, m), below)
           /\ AfterOp("CALL_FUNCTION") /\ Len(frames) = 2)
          => /\ stack = Copies(<<PyInt(7)>>, below) \o C10_CallResult(N, m, 2)
             /\ variables = ("q" :> NodeSocket(2, 0))
             /\ function_outputs = <<NodeSocket(2, 0)>>
       \* the body cannot load the caller's variable
       /\ (/\ operations \in {CallTop(OuterReader(N), below),
                              CallNested(OuterReader(N), below)}
           /\ Done)
          => err = "KeyError"
       \* every call program with an argument-forwarding callee completes
       /\ (/\ operations \in {CallTop(ArgFunction(N, m), below),
                              CallNested(ArgFunction(N, m), below)}
           /\ Done)
          => err = ""

C10_CallIsolation == []C10_Returned /\ [][C10_Enter /\ C10_Suspended]_vars

\* back in a calling function after a call with MaxArgs arguments made over a
\* literal: the literal and the struct result are on the caller's stack
C10_Witness ==
    /\ AfterOp("CALL_FUNCTION") /\ Len(frames) = 2
    /\ Len(PrevOp.data.inputs) = MaxArgs /\ PrevOp.data.num_outputs = 2
    /\ Len(stack) = 2 /\ stack[1] = PyInt(7) /\ IsList(stack[2])
    /\ function_outputs = <<NodeSocket(2, 0)>>
    /\ DOMAIN variables = {"q"}

(***************************************************************************)
(* Field access on a 3-vector.  In the field programs the vector is node 1 *)
(* and the written value is node 2.                                        *)
(***************************************************************************)
Combines == NodesOfType("ShaderNodeCombineXYZ")
Separates == NodesOfType("ShaderNodeSeparateXYZ")
Link(socket, node, input) == [from |-> socket, node |-> node, input |-> input]
ComponentIndex(f) == IVec3.interfaces[f]

\* `result` is component g of a decomposition of a composed value
ReadOfComposed(result, g, c) ==
    \E s \in Separates :
       /\ Link(NodeSocket(c, 0), s, 0) \in bpy.links
       /\ result = NodeSocket(s, ComponentIndex(g))

\* the value the read of obj.g produced, where and when the program has it
ReadResultIs(f, g, P(_)) ==
    /\ (typed_ast = FieldTop(f, g) /\ Finished)
       => "r" \in DOMAIN variables /\ P(variables["r"])
    /\ (/\ typed_ast = FieldInFunction(f, g)
        /\ AfterOp("SET_FUNCTION_OUT") /\ Len(frames) = 2)
       => P(function_outputs[1])

\* C2.  Field write then field read: for every component f of a 3-vector
\* variable obj, compiling and interpreting `obj.f = v` followed by a read of
\* obj.f completes, and the read result is component f of a composed value
\* whose input f is v.
C2_WriteThenRead ==
    \A f \in Fields :
       LET Observed(result) ==
               \E c \in Combines :
                  /\ Link(NodeSocket(2, 0), c, ComponentIndex(f)) \in bpy.links
                  /\ ReadOfComposed(result, f, c)
       IN /\ (typed_ast \in {FieldTop(f, f), FieldInFunction(f, f)} /\ Done)
             => err = ""
          /\ ReadResultIs(f, f, Observed)

\* C3.  No write leaks across components: after a compiled write to
\* component f of obj, a read of another component g completes and observes
\* the value g had before: the composed value's input g is component g of a
\* decomposition of the old obj value.
C3_NoLeak ==
    \A f \in Fields : \A g \in Fields \ {f} :
       LET Observed(result) ==
               \E c \in Combines : \E d \in Separates :
                  /\ Link(NodeSocket(1, 0), d, 0) \in bpy.links
                  /\ Link(NodeSocket(d, ComponentIndex(g)), c, ComponentIndex(g))
                        \in bpy.links
                  /\ ReadOfComposed(result, g, c)
       IN /\ (typed_ast \in {FieldTop(f, g), FieldInFunction(f, g)} /\ Done)
             => err = ""
          /\ ReadResultIs(f, g, Observed)

\* C4.  Vec3 component read: for every index i in 0..2, interpreting the
\* operations of read_component(i) with the variable bound to a socket
\* creates one decompose node whose input is wired to the variable's socket,
\* completes without error, and leaves exactly one pushed value, output i of
\* that node.
C4_ComponentRead ==
    \A i \in 0..2 :
       (/\ operations = <<VectorNode, Operation("CREATE_VAR", PyStr("v"))>>
                        \o read_component(i, "v")
        /\ Done)
       => /\ err = ""
          /\ \E s \in Separates :
                /\ Separates = {s}
                /\ Link(NodeSocket(1, 0), s, 0) \in bpy.links
                /\ stack = <<NodeSocket(s, i)>>

\* the groups materialised under a name, and the call-site nodes that
\* instantiate one of them
MaterializedAs(name) ==
    {j \in 1..Len(bpy.node_groups) : bpy.node_groups[j].name = name}
CallSitesOf(name) ==
    {s \in NodesOfType("GeometryNodeGroup") : bpy.nodes[s].node_tree \in MaterializedAs(name)}

\* C6.  Subgraph memoization: in one pass with n >= 1 executions of
\* CALL_NODEGROUP for the name "g" (at top level, or in function, subgraph or
\* loop bodies) exactly one subgraph is materialised for the name, and the
\* pass ends with n distinct call-site nodes, each wired to the argument
\* popped at its own call.
C6_Memoization ==
    \A n \in 1..MaxCalls :
       LET executions ==
               IF operations \in {CallsAtTop(n), CallsInFunction(n)} THEN n
               ELSE IF operations = CallsInRepeat(n) THEN 2
               ELSE n + 1
       IN (operations \in {CallsAtTop(n), CallsInFunction(n), CallsInGroup(n),
                           CallsInRepeat(n), CallsInSameName(n)})
          => /\ Cardinality(MaterializedAs("g")) <= 1
             /\ Done => err = ""
             /\ Finished
                => /\ Cardinality(MaterializedAs("g")) = 1
                   /\ Cardinality(CallSitesOf("g")) = executions
                   /\ \A s \in CallSitesOf("g") :
                         \E a \in NodesOfType("ShaderNodeValue") :
                            /\ Link(NodeSocket(a, 0), s, 0) \in bpy.links
                            /\ \A t \in CallSitesOf("g") \ {s} :
                                  Link(NodeSocket(a, 0), t, 0) \notin bpy.links

\* C5.  Repeat capture end to end: for a repeat construct whose compiled body
\* assigns exactly one variable v that was bound to a socket before the loop,
\* the loop boundary pair has exactly one capture slot besides Iterations
\* while and after the body runs, the pass completes, and after REPEAT_BODY
\* the enclosing environment's v is bound to the loop output node's result
\* socket.
C5_RepeatCapture ==
    \A n \in 1..2 :
       LET depth == IF typed_ast = RepeatTop(n) THEN 1 ELSE 2
           OneSlot(input_node, output_node) ==
               /\ bpy.nodes[input_node].nin = 2
               /\ Len(bpy.nodes[input_node].outputs) = 2
               /\ bpy.nodes[output_node].nin = 1
               /\ Len(bpy.nodes[output_node].outputs) = 1
       IN (typed_ast \in {RepeatTop(n), RepeatInFunction(n)})
          => /\ Done => err = ""
             /\ (phase = "interpreting" /\ frames # <<>> /\ Frame.kind = "repeat")
                => OneSlot(Frame.input_node, Frame.output_node)
             /\ (AfterOp("REPEAT_BODY") /\ Len(frames) = depth)
                => \E i \in NodesOfType("GeometryNodeRepeatInput") :
                      /\ OneSlot(i, bpy.nodes[i].paired_output)
                      /\ "v" \in DOMAIN variables
                      /\ variables["v"] = NodeSocket(bpy.nodes[i].paired_output, 0)

\* C7.  Multi-target assignment order: for k > 1 targets assigned from a
\* value with k components (a struct, or a 3-vector decomposed first), every
\* target that is not a discard is bound to (TyAssign) or recorded as function
\* output from (TyOut) component i of the value, also after discards.  The
\* value's components are the outputs of node 2.
C7_MultiTargetOrder ==
    \A n \in 2..3 : \A value \in ComponentValues(n) :
       /\ \A targets \in TargetLists(n, OutTargets(n)) :
             (/\ typed_ast = OutInFunction(targets, value)
              /\ phase = "interpreting" /\ err = ""
              /\ Len(frames) = 2 /\ Frame.i > Len(Frame.body))
             => \A j \in 1..n :
                   targets[j] # None => function_outputs[j] = NodeSocket(2, j - 1)
       /\ \A targets \in TargetLists(n, VarTargets(n)) :
             (typed_ast = AssignTop(targets, value) /\ Done)
             => /\ err = ""
                /\ \A j \in 1..n :
                      targets[j] # None
                      => /\ targets[j].id \in DOMAIN variables
                         /\ variables[targets[j].id] = NodeSocket(2, j - 1)

\* C8.  BIND_VAR name pops the top of the stack and binds name to it, whether
\* or not name was bound, exactly as CREATE_VAR name does, and never ends in
\* the interpreter's unimplemented-tag error.
C8_BindVar ==
    [][(/\ Running /\ CurOp.op_type = "BIND_VAR" /\ IsStr(CurOp.data)
        /\ stack # <<>> /\ IsNodeSocket(Top(stack)))
       => /\ err' = ""
          /\ stack' = Pop(stack)
          /\ variables' = (CurOp.data.s :> Top(stack)) @@ variables
          /\ frames' = Advance(frames)]_vars

\* C9.  DESTROY_VAR name removes name from the environment and leaves the
\* stack and every other binding unchanged; so after a compiled field read or
\* field write has been interpreted none of its temporaries is bound.
C9_DestroyVar ==
    /\ [][(Running /\ CurOp.op_type = "DESTROY_VAR" /\ IsStr(CurOp.data))
          => /\ err' = ""
             /\ stack' = stack
             /\ DOMAIN variables' = DOMAIN variables \ {CurOp.data.s}
             /\ \A name \in DOMAIN variables' : variables'[name] = variables[name]]_vars
    /\ [](typed_ast \in FieldPrograms
          => /\ Done => err = ""
             /\ (AfterOp("END_OF_STATEMENT") \/ Finished)
                => DOMAIN variables \subseteq {"obj", "val", "r"})

\* the outputs a body has recorded with SET_FUNCTION_OUT
OutputsSet == {j \in 1..Len(function_outputs) : function_outputs[j] # None}

\* a CALL_FUNCTION body has run to its end and the call is about to return
BodyFinished ==
    /\ phase = "interpreting" /\ err = "" /\ frames # <<>>
    /\ Frame.kind = "function" /\ Frame.i > Len(Frame.body)

\* C11.  Function result rule: when a CALL_FUNCTION body finishes, if exactly
\* one output was set that socket is pushed on the caller's stack, and if more
\* than one was set a single struct is pushed whose storage is the output
\* array reversed; also when the declared arity exceeds the number of outputs
\* set.
C11_FunctionResult ==
    [][BodyFinished
       => /\ Cardinality(OutputsSet) = 1
             => /\ err' = ""
                /\ stack' = Append(Frame.outer_stack,
                                   function_outputs[CHOOSE j \in OutputsSet : TRUE])
          /\ Cardinality(OutputsSet) > 1
             => /\ err' = ""
                /\ stack' = Append(Frame.outer_stack,
                                   PyList(Reverse(function_outputs)))]_vars

\* C12.  Loop-body scoping: REPEAT_BODY runs its body under an environment of
\* its own that is discarded on exit: once REPEAT_BODY has completed, the
\* enclosing environment binds exactly the names it bound before the loop (v
\* and w), the captured ones rebound to outputs of the loop's output node.
C12_LoopScope ==
    \A count \in RepeatCounts \ {Operation("PUSH_VALUE", PyStr("n"))} :
    \A names \in {<<"v">>, <<"v", "w">>} : \A tail \in {<<>>, BindLocal} :
       (/\ operations = RepeatOver(count, names, tail)
        /\ AfterOp("REPEAT_BODY") /\ Len(frames) = 1)
       => /\ DOMAIN variables = {"v", "w"}
          /\ \A j \in 1..Len(names) :
                /\ IsNodeSocket(variables[names[j]])
                /\ variables[names[j]].node \in NodesOfType("GeometryNodeRepeatOutput")

\* C13.  Loop contract violations are fatal: when CREATE_REPEAT_ZONE pops a
\* count that is neither an integer nor a socket, or REPEAT_BODY is executed
\* while no loop context is open, the pass fails at that operation; it never
\* goes on to the next operation.
C13_LoopContract ==
    [][/\ (/\ Running /\ CurOp.op_type = "CREATE_REPEAT_ZONE" /\ stack # <<>>
           /\ ~IsInt(Top(stack)) /\ ~IsNodeSocket(Top(stack)))
          => err' # "" /\ frames' = frames
       /\ (/\ Running /\ CurOp.op_type = "REPEAT_BODY" /\ IsList(CurOp.data)
           /\ current_repeat_zone = <<>>)
          => err' # "" /\ frames' = frames]_vars

\* the operations of a loop body compiled on its own
CompiledAlone(body) ==
    compile_statements(NewCompiler([j \in 1..MaxTemps |-> "1a2b3c4d"]), body, 1).operations

\* C14.  Bounded-loop unrolling: compiling a loop over the integer range
\* start..end (n = end - start + 1 iterations) with loop variable var appends
\* exactly n copies of the compiled body, in increasing index order, each
\* preceded by the pair PUSH_VALUE i, BIND_VAR var for its index i, and emits
\* no CREATE_REPEAT_ZONE or REPEAT_BODY.
C14_Unrolling ==
    \A loop \in {p[1] : p \in LoopPrograms} :
       (typed_ast = <<loop>> /\ loop.var # None /\ phase # "source")
       => LET B == CompiledAlone(loop.body)
              n == loop.end - loop.start + 1
              stride == 2 + Len(B)
          IN /\ compile_error = ""
             /\ Len(operations) = n * stride + 1
             /\ operations[Len(operations)] = Operation("END_OF_STATEMENT", None)
             /\ \A k \in 0..(n - 1) :
                   /\ operations[k * stride + 1]
                         = Operation("PUSH_VALUE", PyInt(loop.start + k))
                   /\ operations[k * stride + 2]
                         = Operation("BIND_VAR", PyStr(loop.var.id))
                   /\ SubSeq(operations, k * stride + 3, (k + 1) * stride) = B
             /\ \A j \in 1..Len(operations) :
                   operations[j].op_type \notin {"CREATE_REPEAT_ZONE", "REPEAT_BODY"}

\* a loop of three iterations from 0 has been compiled
C14_Witness ==
    /\ phase = "compiled" /\ typed_ast # <<>> /\ typed_ast[1].k = "TyLoop"
    /\ typed_ast[1].var # None
    /\ typed_ast[1].start = 0 /\ typed_ast[1].end = 2
    /\ Len(operations) > 3
    /\ operations[1] = Operation("PUSH_VALUE", PyInt(0))

\* the links into, and the default values written on, input slot j of a node
LinksInto(node, j) == {l \in bpy.links : l.node = node /\ l.input = j}
DefaultsOn(node, j) ==
    {d \in bpy.default_values : d.node = node /\ d.dir = "in" /\ d.index = j}

\* C15.  Absent builtin argument: for a builtin invocation compiled with fewer
\* arguments than the descriptor declares, each missing trailing argument is
\* passed as the absent sentinel and CALL_BUILTIN neither links nor sets a
\* default value on its slot, while every socket argument is linked and every
\* literal argument, 0 and False included, is written as the slot's default.
C15_AbsentArgument ==
    \A args \in ArgLists :
       (typed_ast = BuiltinCall(args))
       => /\ phase # "source"
             => /\ compile_error = ""
                /\ Len(operations) = 5
                /\ \A j \in (Len(args) + 1)..3 :
                      operations[j] = Operation("PUSH_VALUE", None)
                /\ operations[4].op_type = "CALL_BUILTIN"
          /\ Done => err = ""
          /\ (AfterOp("CALL_BUILTIN") /\ Frame.i = 5)
             => LET node == Len(bpy.nodes)
                    \* the node created for socket argument j
                    source(j) == Cardinality({h \in 1..j : args[h] = ValueCall})
                IN \A j \in 1..3 :
                      IF j > Len(args)
                      THEN LinksInto(node, j - 1) = {} /\ DefaultsOn(node, j - 1) = {}
                      ELSE IF args[j] = ValueCall
                      THEN /\ LinksInto(node, j - 1)
                                = {Link(NodeSocket(source(j), 0), node, j - 1)}
                           /\ DefaultsOn(node, j - 1) = {}
                      ELSE /\ LinksInto(node, j - 1) = {}
                           /\ DefaultsOn(node, j - 1)
                                = {[node |-> node, dir |-> "in", index |-> j - 1,
                                    value |-> args[j].value]}

\* combine_xyz(value(), False) has been interpreted: slot 0 linked, slot 1 set
\* to False, slot 2 untouched
C15_Witness ==
    /\ Finished
    /\ typed_ast = BuiltinCall(<<ValueCall, Const(PyBool(FALSE), "BOOL")>>)
    /\ LinksInto(2, 0) # {}
    /\ \E d \in DefaultsOn(2, 1) : d.value = PyBool(FALSE)
    /\ LinksInto(2, 2) = {} /\ DefaultsOn(2, 2) = {}

\* C16.  CREATE_NODE_GROUP materialises its operand's subgraph eagerly: once
\* it has been executed the subgraph is registered under its name, no
\* call-site node exists, the stack and the environment are unchanged, and no
\* error was raised; a later CALL_NODEGROUP of the name does not rebuild it.
C16_CreateNodeGroup ==
    (operations = <<Operation("CREATE_NODE_GROUP", GroupG)>> \o CallG)
    => /\ Done => err = ""
       /\ (AfterOp("CREATE_NODE_GROUP") /\ Len(frames) = 1)
          => /\ "g" \in DOMAIN node_group_trees
             /\ Cardinality(MaterializedAs("g")) = 1
             /\ CallSitesOf("g") = {}
             /\ stack = <<>> /\ variables = <<>>
       /\ Finished => Cardinality(MaterializedAs("g")) = 1

\* C17.  Field lookup failure is a compiler error: compiling a field read or
\* a field write whose object type has no registered interface, or whose field
\* is not in the type's interface, ends with compilation rejecting the program
\* (phase "rejected": compile returns False with errors reported), not with an
\* exception leaving the compiler.
C17_LookupFailure ==
    (typed_ast \in LookupFailurePrograms /\ phase # "source")
    => phase = "rejected" /\ compile_error = ""

\* C18.  Stack empty at statement boundaries: for every statement the compiler
\* emits, when the interpreter reaches the statement's END_OF_STATEMENT the
\* stack is already empty, and after END_OF_STATEMENT it is empty.
C18_StatementBoundary ==
    typed_ast # <<>>
    => /\ (Running /\ CurOp.op_type = "END_OF_STATEMENT") => stack = <<>>
       /\ AfterOp("END_OF_STATEMENT") => stack = <<>>

\* C19.  Determinism: compiling the same typed program again, whatever names
\* the temporaries draw, yields the operation sequence already compiled; and
\* when REPEAT_BODY captures loop variables, the capture slot each name gets
\* is the only one the same operations and state can give it.
C19_SameCompilation ==
    (typed_ast # <<>> /\ phase \in {"compiled", "interpreting"})
    => \A uuids \in [1..MaxTemps -> Uuids] :
          compile_statements(NewCompiler(uuids), typed_ast, 1).operations
              = operations

C19_SameSlots ==
    (Running /\ CurOp.op_type = "REPEAT_BODY" /\ Len(frames') = Len(frames) + 1)
    => \A order \in Orderings(CapturedNames(CurOp.data.items, variables)) :
          \A j \in 1..Len(order) :
             frames'[Len(frames')].captured_vars[j].name = order[j]

C19_Determinism == []C19_SameCompilation /\ [][C19_SameSlots]_vars

\* C20.  Literal assignment: compiling then interpreting an assignment whose
\* value is a literal, a discarded first target included, creates exactly one
\* input node holding the literal, binds the variable (or records the function
\* output) to that node's output, and reaches the following statement boundary
\* with an empty stack.
C20_LiteralAssignment ==
    \A value \in {PyInt(0), PyInt(1)} :
       /\ \A targets \in TargetLists(1, VarTargets(1)) :
             typed_ast = AssignTop(targets, Const(value, "INT"))
             => /\ (Running /\ CurOp.op_type = "END_OF_STATEMENT") => stack = <<>>
                /\ Done
                   => /\ err = ""
                      /\ Cardinality(NodesOfType("ShaderNodeValue")) = 1
                      /\ [node |-> 1, dir |-> "out", index |-> 0, value |-> value]
                            \in bpy.default_values
                      /\ targets[1] # None
                         => /\ targets[1].id \in DOMAIN variables
                            /\ variables[targets[1].id] = NodeSocket(1, 0)
       /\ \A targets \in TargetLists(1, OutTargets(1)) :
             typed_ast = OutInFunction(targets, Const(value, "INT"))
             => /\ (Running /\ CurOp.op_type = "END_OF_STATEMENT" /\ Len(frames) = 2)
                   => stack = <<>>
                /\ Done => err = ""
                /\ (phase = "interpreting" /\ err = ""
                    /\ Len(frames) = 2 /\ Frame.i > Len(Frame.body))
                   => /\ Cardinality(NodesOfType("ShaderNodeValue")) = 1
                      /\ [node |-> 1, dir |-> "out", index |-> 0, value |-> value]
                            \in bpy.default_values
                      /\ targets[1] # None
                         => function_outputs[1] = NodeSocket(1, 0)

\* C21.  Registry lookup: after any sequence of register_type calls,
\* get_interface(type, name) returns the attribute stored under name in the
\* definition most recently registered for type, and None when the type was
\* never registered or the name is not in that definition; a lookup leaves
\* the registry as it was.
C21_Returned ==
    returned.call = "get_interface"
    => returned.result =
          IF returned.type \in DOMAIN latest
             /\ returned.interface_name \in DOMAIN latest[returned.type].interfaces
          THEN <<latest[returned.type].interfaces[returned.interface_name]>>
          ELSE <<>>

C21_RegistryLookup ==
    []C21_Returned /\ [][returned'.call = "get_interface" => types' = types]_vars

\* a lookup that found the attribute registered under the name, in a
\* registry where a lookup of FLOAT.y finds nothing
C21_Witness ==
    /\ returned.call = "get_interface"
    /\ returned.type = "VEC3" /\ returned.interface_name = "x"
    /\ returned.result = <<1>>
    /\ "FLOAT" \in DOMAIN types /\ "y" \notin DOMAIN types["FLOAT"].interfaces

\* C22.  Nested repeat lifecycle: a loop context is pending from a
\* CREATE_REPEAT_ZONE until the end of its matching REPEAT_BODY; when the body
\* holds a complete inner repeat, the end of the inner REPEAT_BODY leaves the
\* outer context pending, and the outer REPEAT_BODY finishes without error,
\* its captures bound to the outer output node, with no context pending.
C22_NestedRepeat ==
    \A count \in RepeatCounts \ {Operation("PUSH_VALUE", PyStr("n"))} :
    \A names \in {<<"v">>, <<"v", "w">>} :
       operations = RepeatOver(count, names, InnerRepeat)
       => /\ Done => err = "" /\ current_repeat_zone = <<>>
          /\ (AfterOp("CREATE_REPEAT_ZONE") /\ Len(frames) = 1)
             => current_repeat_zone # <<>>
          /\ (phase = "interpreting" /\ err = "" /\ Len(frames) = 2)
             => /\ current_repeat_zone # <<>>
                /\ AfterOp("REPEAT_BODY")
                   => current_repeat_zone[1].input_node = Frame.input_node
          /\ Finished
             => \A j \in 1..Len(names) :
                   /\ IsNodeSocket(variables[names[j]])
                   /\ bpy.nodes[variables[names[j]].node].type
                         = "GeometryNodeRepeatOutput"
                   /\ \A n \in NodesOfType("GeometryNodeRepeatOutput") :
                         variables[names[j]].node <= n

\* C23.  Capture set: REPEAT_BODY gives a capture slot to exactly the names a
\* top-level CREATE_VAR of the body creates and the enclosing environment
\* binds to a socket at that moment; a name created only inside a nested body,
\* or bound to a struct or a literal, gets none, and each boundary node gains
\* as many slots as there are captures.
C23_Enters ==
    /\ Running /\ CurOp.op_type = "REPEAT_BODY" /\ Len(frames) = 1
    /\ operations \in CapturePrograms \cup RepeatPrograms
    /\ current_repeat_zone # <<>>

C23_CaptureSet ==
    [][C23_Enters =>
         LET body == CurOp.data.items
             expected == {name \in DOMAIN variables :
                            /\ IsNodeSocket(variables[name])
                            /\ \E j \in 1..Len(body) :
                                  /\ body[j].op_type = "CREATE_VAR"
                                  /\ body[j].data = PyStr(name)}
             zone == current_repeat_zone[1]
             Grown(node) ==
                /\ bpy'.nodes[node].nin = bpy.nodes[node].nin + Cardinality(expected)
                /\ Len(bpy'.nodes[node].outputs)
                      = Len(bpy.nodes[node].outputs) + Cardinality(expected)
             captured == frames'[Len(frames')].captured_vars
         IN /\ err' = "" /\ Len(frames') = 2
            /\ Len(captured) = Cardinality(expected)
            /\ {captured[j].name : j \in 1..Len(captured)} = expected
            /\ Grown(zone.input_node) /\ Grown(zone.output_node)]_vars

\* the body recreates v, s and w and calls a function that creates w: only v
\* and w, the socket-valued names created at top level, are captured
C23_Witness ==
    /\ operations = CaptureOver(<<"v", "s", "w">>, CreateInCall)
    /\ phase = "interpreting" /\ Len(frames) = 2 /\ Frame.kind = "repeat"
    /\ {Frame.captured_vars[j].name : j \in 1..Len(Frame.captured_vars)} = {"v", "w"}

\* C24.  Capture wiring consistency: each captured variable has one capture
\* position of its own, used for the link from its pre-loop socket into the
\* loop input node, for its binding during the body (the input node's output
\* at that position), for the link from its post-body socket into the loop
\* output node, and for its final binding to the output node's result socket.
C24_Wired(name, pre, input_node, output_node, p) ==
    /\ Link(pre, input_node, p + 1) \in bpy.links
    /\ \E m \in Separates :
          /\ Link(NodeSocket(input_node, p + 1), m, 0) \in bpy.links
          /\ Link(NodeSocket(m, 0), output_node, p) \in bpy.links
          /\ \A l \in bpy.links :
                (l.node = output_node /\ l.input = p) => l.from = NodeSocket(m, 0)
    /\ variables[name] = NodeSocket(output_node, p)

C24_CaptureWiring ==
    (/\ operations \in CapturePrograms \cup RepeatPrograms
     /\ AfterOp("REPEAT_BODY") /\ Len(frames) = 1
     /\ NodesOfType("GeometryNodeRepeatInput") # {})
    => \E input_node \in NodesOfType("GeometryNodeRepeatInput") :
          LET body == PrevOp.data.items
              captured == {name \in {"v", "w"} :
                             \E j \in 1..Len(body) :
                                /\ body[j].op_type = "CREATE_VAR"
                                /\ body[j].data = PyStr(name)}
              pre == [name \in {"v", "w"} |->
                         IF name = "v" THEN NodeSocket(1, 0) ELSE NodeSocket(2, 0)]
          IN \E pos \in [captured -> 0..(Cardinality(captured) - 1)] :
                /\ \A a, c \in captured : pos[a] = pos[c] => a = c
                /\ \A name \in captured :
                      C24_Wired(name, pre[name], input_node,
                                bpy.nodes[input_node].paired_output, pos[name])

\* both v and w captured, the loop over: each bound to a result of its own
C24_Witness ==
    /\ operations = CaptureOver(<<"v", "s", "w">>, CreateInCall)
    /\ AfterOp("REPEAT_BODY") /\ Len(frames) = 1
    /\ \E out \in NodesOfType("GeometryNodeRepeatOutput") :
          /\ variables["v"] = NodeSocket(out, 1)
          /\ variables["w"] = NodeSocket(out, 0)

\* C25.  Current-function context is restored: after the callee of a call
\* inside f's body is compiled, a later output statement of f is compiled
\* against f's own output declarations, so the input node made for f's
\* literal output carries the name of f's output.
C25_ContextRestored ==
    \A is_node_group \in BOOLEAN :
       (typed_ast = CallThenOut(is_node_group) /\ phase # "source")
       => /\ compile_error = ""
          /\ LET body == operations[1].data.body
             IN /\ \E j \in 1..Len(body) : body[j].op_type = "RENAME_NODE"
                /\ \A j \in 1..Len(body) :
                      body[j].op_type = "RENAME_NODE" => body[j].data = PyStr("f1")

\* C26.  Builtin stack effect: CALL_BUILTIN with a descriptor of a inputs and
\* o outputs, on a stack holding at least a values, pops exactly a values
\* (none when a = 0), creates exactly one node, and pushes nothing when o = 0,
\* the output socket when o = 1 and one struct when o >= 2; the environment
\* is unchanged.
C26_Calls ==
    /\ Running /\ CurOp.op_type = "CALL_BUILTIN" /\ CurOp.data.k = "NodeInstance"
    /\ Len(stack) >= Len(CurOp.data.inputs)
    /\ err' = ""

C26_BuiltinStackEffect ==
    [][C26_Calls =>
         LET a == Len(CurOp.data.inputs)
             o == Len(CurOp.data.outputs)
             below == SubSeq(stack, 1, Len(stack) - a)
         IN /\ Len(bpy'.nodes) = Len(bpy.nodes) + 1
            /\ variables' = variables
            /\ o = 0 => stack' = below
            /\ o = 1 => /\ Len(stack') = Len(below) + 1
                        /\ SubSeq(stack', 1, Len(below)) = below
                        /\ stack'[Len(stack')]
                              = NodeSocket(Len(bpy'.nodes), CurOp.data.outputs[1])
            /\ o >= 2 => /\ Len(stack') = Len(below) + 1
                         /\ SubSeq(stack', 1, Len(below)) = below
                         /\ IsList(stack'[Len(stack')])
                         /\ Len(stack'[Len(stack')].items) = o]_vars

\* a builtin without inputs just ran on a stack that already held a value,
\* which is still below the socket it pushed
C26_Witness ==
    /\ AfterOp("CALL_BUILTIN") /\ PrevOp.data.inputs = <<>>
    /\ Len(stack) = 2 /\ stack[1] = NodeSocket(1, 0) /\ stack[2] = NodeSocket(2, 0)

\* C27.  Field-write emission order: compiling `obj.f = val` emits the value
\* expression's operations, the bind of a first temporary, the object
\* expression's operations, the bind of a second temporary, the attribute's
\* write operations for the object temporary and the value temporary, then
\* the destruction of both temporaries; so in the emitted sequence both binds
\* come before the write operations and both destructions after them.
C27_Emitted(f, value_temp, object_temp) ==
    <<Operation("GET_VAR", PyStr("val")), Operation("BIND_VAR", PyStr(value_temp)),
      Operation("GET_VAR", PyStr("obj")), Operation("BIND_VAR", PyStr(object_temp))>>
    \o write_component(ComponentIndex(f), object_temp, value_temp)
    \o <<Operation("DESTROY_VAR", PyStr(value_temp)),
         Operation("DESTROY_VAR", PyStr(object_temp)),
         Operation("END_OF_STATEMENT", None)>>

C27_FieldWriteOrder ==
    \A f \in Fields : \A g \in Fields :
       (typed_ast = FieldTop(f, g) /\ phase # "source")
       => /\ compile_error = ""
          /\ \E u1 \in Uuids, u2 \in Uuids :
                LET emitted == C27_Emitted(f, "val_" \o u1, "obj_" \o u2)
                    \* the two assignments before the field write take 6 + 3 operations
                    first == Len(compile_statements(NewCompiler([j \in 1..MaxTemps |-> u1]),
                                     SubSeq(FieldTop(f, g), 1, 2), 1).operations) + 1
                IN /\ Len(operations) >= first + Len(emitted) - 1
                   /\ SubSeq(operations, first, first + Len(emitted) - 1) = emitted

C27_Witness ==
    /\ typed_ast = FieldTop("y", "x") /\ phase = "compiled"
    /\ \E j \in 1..Len(operations) :
          /\ operations[j] = Operation("DESTROY_VAR", PyStr("val_1a2b3c4d"))
          /\ operations[j + 1] = Operation("DESTROY_VAR", PyStr("obj_5e6f7a8b"))

\* C28.  Argument count at calls: for a call with m arguments of a function
\* or node group with n >= m declared inputs, the operations before the CALL
\* leave exactly n values on the stack: the m arguments in declared order,
\* each a single value (output 0 of a struct-shaped argument), then the
\* default values of inputs m..n-1 in order; the CALL pops exactly those n.
C28_AtCall ==
    /\ typed_ast \in ArgPrograms
    /\ Running /\ Len(frames) = 1
    /\ CurOp.op_type \in {"CALL_FUNCTION", "CALL_NODEGROUP"}

C28_Pushed ==
    C28_AtCall
    => LET function == typed_ast[1].function
           args == typed_ast[1].args
           n == Len(function.inputs)
           m == Len(args)
       IN /\ Len(stack) = n
          /\ \A j \in 1..m :
                /\ IsNodeSocket(stack[j]) /\ stack[j].index = 0
                /\ bpy.nodes[stack[j].node].type = args[j].node.key
                /\ \A h \in 1..(j - 1) : stack[h].node < stack[j].node
          /\ \A j \in (m + 1)..n : stack[j] = function.inputs[j].value

C28_ArgumentCount ==
    /\ []C28_Pushed
    /\ [][C28_AtCall => /\ err' = "" /\ Len(frames') = 2
                        /\ frames'[2].outer_stack = <<>>
                        /\ stack' = <<>>]_vars

\* one struct-shaped argument given, the second input left to its default
C28_Witness ==
    /\ \E is_node_group \in BOOLEAN :
          typed_ast = DefaultedCall(2, <<SeparateCall(VectorCall, 2)>>, is_node_group)
    /\ Running /\ Len(frames) = 1 /\ CurOp.op_type = "CALL_NODEGROUP"
    /\ stack = <<NodeSocket(2, 0), PyInt(2)>>

\* C29.  Node order: Interpreter.nodes grows only by appending, and what a
\* step appends are the nodes its instruction just created, in creation order
\* (one node for CALL_BUILTIN and for a node group call site, the boundary
\* pair for CREATE_REPEAT_ZONE), also inside function and node group bodies;
\* so RENAME_NODE and SET_OUTPUT act on the node created by the most recently
\* executed node-creating instruction.
C29_InOrder ==
    \A i, j \in 1..Len(nodes) : i < j => nodes[i] < nodes[j]

C29_Appends ==
    LET k == Len(nodes') - Len(nodes)
    IN /\ k \in 0..2
       /\ SubSeq(nodes', 1, Len(nodes)) = nodes
       /\ \A j \in 1..k : nodes'[Len(nodes) + j] = Len(bpy'.nodes) - k + j
       /\ k > 0 => Len(bpy'.nodes) = Len(bpy.nodes) + k
       /\ (Running /\ err' = "" /\ Len(frames') = Len(frames))
          => k = (CASE CurOp.op_type = "CALL_BUILTIN" -> 1
                    [] CurOp.op_type = "CALL_NODEGROUP" -> 1
                    [] CurOp.op_type = "CREATE_REPEAT_ZONE"
                       /\ current_repeat_zone' # current_repeat_zone -> 2
                    [] OTHER -> 0)
       /\ (phase = "interpreting" /\ frames # <<>> /\ Frame.kind = "node_group"
           /\ Len(frames') < Len(frames))
          => k = 1

C29_ActsOnLast ==
    (/\ Running /\ CurOp.op_type \in {"RENAME_NODE", "SET_OUTPUT"}
     /\ nodes # <<>> /\ err' = "")
    => LET last == nodes[Len(nodes)]
       IN /\ CurOp.op_type = "RENAME_NODE" => bpy'.nodes[last].label = CurOp.data
          /\ CurOp.op_type = "SET_OUTPUT"
             => \E d \in bpy'.default_values :
                   d.node = last /\ d.dir = "out" /\ d.value = CurOp.data.items[2]
          /\ \A n \in 1..Len(bpy.nodes) : n # last => bpy'.nodes[n] = bpy.nodes[n]
          /\ \A d \in bpy'.default_values \ bpy.default_values : d.node = last

C29_NodeOrder ==
    []C29_InOrder /\ [][C29_Appends /\ C29_ActsOnLast]_vars

\* a node renamed inside a function body, after nodes made before the call
C29_Witness ==
    /\ AfterOp("RENAME_NODE") /\ Len(frames) = 2 /\ Len(nodes) >= 2
    /\ bpy.nodes[nodes[Len(nodes)]].label = PrevOp.data
    /\ bpy.nodes[nodes[1]].label # PrevOp.data

====
